---- MODULE Spec2Model ----
(***************************************************************************)
(* Maze engine of Tess: construction of the passage grid (the recursive    *)
(* backtracker of the Maze class and the earlier hunt-and-kill class),     *)
(* extraction of wall segments, the wall spatial lookup and its queries.   *)
(***************************************************************************)
EXTENDS Integers, Sequences, FiniteSets, TLC

\* Largest dimensions the model constructs; the dimensions start at -1 so
\* that the constructor is also called with invalid sizes.
MaxWidth == 4
MaxHeight == 4
\* Largest number of cells of a constructed grid.
MaxCells == 9
\* World size of one cell, the constructor's cellSize argument.
CellSize == 2
\* Query positions run from -QueryMargin to the grid's extent + QueryMargin.
QueryMargin == 3
\* Largest number of cells of the maze a Supervisor constructs.
MaxPlayCells == 4
\* A candidate position is at most MaxStep from the player on each axis.
MaxStep == 1
\* Largest passage graph given to getPathToTile: dimensions and cells.
MaxPathWidth == 3
MaxPathHeight == 3
MaxPathCells == 9
\* Calls of spawnPellets on one Maze.
MaxSpawns == 2
\* Calls of Player.update that are followed.
MaxTicks == 2

\* a caller registers at most MaxTimers timers, of intervals up to
\* MaxInterval seconds, and calls update at most MaxUpdates times with up to
\* MaxDelta seconds each
MaxTimers == 2
MaxInterval == 2
MaxUpdates == 3
MaxDelta == 2
\* the loop of Supervisor.run is followed for MaxFrames frames of up to
\* MaxFrame seconds
MaxFrames == 5
MaxFrame == 10
\* a game is followed for MaxGameFrames frames of up to MaxGameDelta seconds,
\* in each of which the Player meets up to MaxTouching ghosts and up to
\* MaxEaten pellets
MaxGameFrames == 100
MaxGameDelta == 1
MaxTouching == 1
MaxEaten == 1
\* new Maze(50, 50, 5, 2): the wallHeight argument.
WallHeight == 2
\* findSafeSpawnPosition: maxAttempts.
maxAttempts == 100

\* ------------------------------------------------------------------------
\* Directions.ts

North == 1
South == 2
East == 4
West == 8

Directions == {North, South, East, West}

dx(direction) ==
  CASE direction = East -> 1
    [] direction = West -> -1
    [] OTHER -> 0

dz(direction) ==
  CASE direction = North -> -1
    [] direction = South -> 1
    [] OTHER -> 0

opposite(direction) ==
  CASE direction = North -> South
    [] direction = South -> North
    [] direction = West -> East
    [] direction = East -> West

\* (mask & direction) !== 0, for a one-bit direction
hasBit(mask, direction) == (mask \div direction) % 2 = 1

\* mask |= direction
orBit(mask, direction) == IF hasBit(mask, direction) THEN mask ELSE mask + direction

\* ------------------------------------------------------------------------
\* State

VARIABLES
  version,       \* which Maze class is constructed: "backtracker" or "huntkill"
  width, height, \* constructor arguments
  pc,            \* position of the constructor / object life cycle
  error,         \* the exception the constructor threw, or "none"
  grid,          \* grid[z][x]: passage bitmask
  stack,         \* call stack of carvePassagesFrom: one cell per activation
  node,          \* current cell of the hunt-and-kill loop
  wallSegments,  \* sequence of [p1, p2]
  wallBoxes,     \* one collider per wall segment, in segment order
  wallLists,     \* wallLists[z][x]: sequence of collider indices
  query,         \* the query being answered: "none", "walls" or "pellets"
  readCells,     \* the <<gridZ, gridX>> bucket indices the query read
  result,        \* the colliders the wall query returned
  player,        \* Player.position on the x and z axes, NoPoint before a Player exists
  playerSize,    \* Player.size
  candidate,     \* the position willCollide was called with, <<>> outside a call
  collisions,    \* the ICollision array willCollide returned
  startTile,     \* the arguments start and goal of a call of getPathToTile
  goalTile,
  found,         \* what that call returned
  runner,        \* MazeRunner's mesh position, in half cells
  target,        \* the position of MazeRunner.target, in half cells
  path,          \* MazeRunner.path
  currentTargetIndex,
  recomputed,    \* whether the last update called getPathToTile
  pelletGroup,   \* pelletGroup.children
  pelletLists,   \* pelletLists[z][x]: the pellet meshes of a cell
  spawned,       \* how many times spawnPellets has run
  pelletCall,    \* the last call of spawnPellets or removePellet
  playerPos,     \* Player.position on all three axes, in fine units
  velocityY,     \* Player.velocity.y, in fine units per tick
  ticks,         \* how many times Player.update has run
  lastTick,      \* what the last Player.update did
  spawn,         \* what findSafeSpawnPosition returned, <<>> before it has run
  score,         \* Supervisor.score
  timers,        \* Timer.timers, the entries of the Map in insertion order
  nextId,        \* Timer.nextId
  canEatGhosts,  \* Supervisor.canEatGhosts
  updates,       \* how many times Timer.update has run
  timerLog,      \* for every id addTimer returned, what happened to its timer
  power,         \* what the power-up window has done so far
  gameState,     \* Supervisor.state
  scoreToWin,    \* Supervisor.scoreToWin
  ghosts,        \* Supervisor.ghosts.length
  frame          \* where the loop of Supervisor.run stands within a tick

\* the state of the pathfinder
runnerVars == <<startTile, goalTile, found, runner, target, path, currentTargetIndex,
                recomputed>>

\* the pellets of the Maze
pelletVars == <<pelletGroup, pelletLists, spawned, pelletCall>>

\* the moving Player and the Supervisor's score
playVars == <<playerPos, velocityY, ticks, lastTick, spawn, score>>

\* the Timer and the power-up flag its callbacks write
clockVars == <<timers, nextId, canEatGhosts, updates, timerLog, power>>

\* the outcome of the game
stateVars == <<gameState, scoreToWin, ghosts, frame>>

\* the state of the Supervisor's other objects, which the Maze never writes,
\* and the pellets, which the construction of the walls never writes
gameVars == <<player, playerSize, candidate, collisions, runnerVars, pelletVars,
             playVars, clockVars, stateVars>>

vars == <<version, width, height, pc, error, grid, stack, node, wallSegments,
          wallBoxes, wallLists, query, readCells, result, gameVars>>

Point2(x, z) == [x |-> x, z |-> z]

NoPoint == [x |-> -1, z |-> -1]

\* Array.from(Array(height), _ => Array(width).fill(0))
newGrid(w, h) == [z \in 0 .. h - 1 |-> [x \in 0 .. w - 1 |-> 0]]

\* Array(n) throws a RangeError for a negative length; the row callback runs
\* once per row, so a negative width only throws when there is a row.
arrayThrows(w, h) == h < 0 \/ (h > 0 /\ w < 0)

inBounds(x, z) == x >= 0 /\ x < width /\ z >= 0 /\ z < height

\* carve without the write to the neighbour's mask
carveOneSided(g, x, z, dir) == [g EXCEPT ![z][x] = orBit(@, dir)]

\* this.grid[z][x] |= dir; this.grid[nz][nx] |= opposite(dir)
carve(g, x, z, dir) ==
  LET nx == x + dx(dir)
      nz == z + dz(dir)
      g1 == [g EXCEPT ![z][x] = orBit(@, dir)]
  IN [g1 EXCEPT ![nz][nx] = orBit(@, opposite(dir))]

\* the test of carvePassagesFrom and of walk on the cell reached by dir
canCarve(g, x, z, dir) ==
  LET nx == x + dx(dir)
      nz == z + dz(dir)
  IN inBounds(nx, nz) /\ g[nz][nx] = 0

\* getPathToTile has not been called
Idle == [status |-> "idle", path |-> <<>>]

\* no MazeRunner exists
NoRunner ==
  /\ startTile = NoPoint
  /\ goalTile = NoPoint
  /\ found = Idle
  /\ runner = NoPoint
  /\ target = NoPoint
  /\ path = <<>>
  /\ currentTargetIndex = 0
  /\ recomputed = FALSE

\* a mesh: id is 0 for a mesh that is no pellet and else the number of the
\* spawnPellets call that made it; x and z are mesh.position in half units
Mesh(id, x, z) == [id |-> id, x |-> x, z |-> z]

NoMesh == Mesh(0, 0, 0)

NoCall == [op |-> "none", mesh |-> NoMesh, threw |-> "none", live |-> 0]

\* no pellet has been made
NoPellets ==
  /\ pelletGroup = <<>>
  /\ pelletLists = <<>>
  /\ spawned = 0
  /\ pelletCall = NoCall

NoTick == [D |-> <<0, 0>>, jump |-> FALSE, from |-> <<>>, first |-> <<>>,
           movement |-> <<0, 0>>, correction |-> <<0, 0>>, vy |-> 0,
           vertical |-> <<>>]

\* no Player moves
NoPlay ==
  /\ playerPos = <<>>
  /\ velocityY = 0
  /\ ticks = 0
  /\ lastTick = NoTick
  /\ spawn = <<>>
  /\ score = 0

\* the power-up window before the Timer has run
NoPower == [openFor |-> 0, closedAfter |-> -1, reopened |-> FALSE]

\* no Timer and no game
NoClock ==
  /\ timers = <<>>
  /\ nextId = 0
  /\ canEatGhosts = FALSE
  /\ updates = 0
  /\ timerLog = <<>>
  /\ power = NoPower
  /\ gameState = "Start"
  /\ scoreToWin = 0
  /\ ghosts = 0
  /\ frame = "idle"

Init ==
  /\ version \in {"backtracker", "huntkill"}
  /\ width \in -1 .. MaxWidth
  /\ height \in -1 .. MaxHeight
  /\ width * height <= MaxCells
  /\ pc = "new"
  /\ error = "none"
  /\ grid = <<>>
  /\ stack = <<>>
  /\ node = NoPoint
  /\ wallSegments = <<>>
  /\ wallBoxes = <<>>
  /\ wallLists = <<>>
  /\ query = "none"
  /\ readCells = {}
  /\ result = <<>>
  /\ player = NoPoint
  /\ playerSize = 0
  /\ candidate = <<>>
  /\ collisions = <<>>
  /\ NoRunner
  /\ NoPellets
  /\ NoPlay
  /\ NoClock

\* ------------------------------------------------------------------------
\* Constructor: allocation of the grid

ConstructThrows ==
  /\ pc = "new"
  /\ arrayThrows(width, height)
  /\ pc' = "threw"
  /\ error' = "RangeError"
  /\ UNCHANGED <<gameVars, version, width, height, grid, stack, node, wallSegments,
                 wallBoxes, wallLists, query, readCells, result>>

\* Maze (backtracker): the constructor reaches generateMaze, which calls
\* carvePassagesFrom(0, 0).
ConstructBacktracker ==
  /\ pc = "new"
  /\ version = "backtracker"
  /\ ~arrayThrows(width, height)
  /\ grid' = newGrid(width, height)
  /\ stack' = <<Point2(0, 0)>>
  /\ pc' = "carving"
  /\ UNCHANGED <<gameVars, version, width, height, error, node, wallSegments,
                 wallBoxes, wallLists, query, readCells, result>>

\* ------------------------------------------------------------------------
\* carvePassagesFrom.  A frame is one activation (x, z).  The directions a
\* frame has already iterated lead to cells that are out of bounds or visited,
\* and a visited cell stays visited, so the directions in which the frame's
\* loop can still carve are exactly those that pass the test now; the next
\* one in the shuffled order is any of them.

Top == stack[Len(stack)]

Pop == SubSeq(stack, 1, Len(stack) - 1)

\* the loop of the top frame reaches a direction that passes the test
CarveRecurse ==
  /\ pc = "carving"
  /\ stack # <<>>
  /\ \E dir \in Directions :
       /\ canCarve(grid, Top.x, Top.z, dir)
       /\ grid' = carve(grid, Top.x, Top.z, dir)
       /\ stack' = Append(stack, Point2(Top.x + dx(dir), Top.z + dz(dir)))
  /\ UNCHANGED <<gameVars, version, width, height, pc, error, node, wallSegments,
                 wallBoxes, wallLists, query, readCells, result>>

\* the loop of the top frame ends: no direction left passes the test
CarveReturn ==
  /\ pc = "carving"
  /\ stack # <<>>
  /\ \A dir \in Directions : ~canCarve(grid, Top.x, Top.z, dir)
  /\ stack' = Pop
  /\ pc' = IF Len(stack) = 1 THEN "generated" ELSE "carving"
  /\ UNCHANGED <<gameVars, version, width, height, error, grid, node, wallSegments,
                 wallBoxes, wallLists, query, readCells, result>>

\* ------------------------------------------------------------------------
\* The earlier Maze class: hunt-and-kill.  Its Point2 is (x, y); the model
\* keeps the field name z for the row.  Its row step dy is the dz of
\* Directions.ts.

\* Math.floor(Math.random() * n)
randomBelow(n) == IF n > 0 THEN 0 .. n - 1 ELSE n .. 0

ConstructHuntKill ==
  /\ pc = "new"
  /\ version = "huntkill"
  /\ ~arrayThrows(width, height)
  /\ grid' = newGrid(width, height)
  /\ \E x \in randomBelow(width), y \in randomBelow(height) :
       node' = Point2(x, y)
  /\ pc' = "walkhunt"
  /\ UNCHANGED <<gameVars, version, width, height, error, stack, wallSegments,
                 wallBoxes, wallLists, query, readCells, result>>

\* walk without the test that the neighbour is unvisited
walkRevisits(g, point) ==
  LET open == {dir \in Directions :
                 inBounds(point.x + dx(dir), point.z + dz(dir))}
  IN IF open = {}
       THEN {[grid |-> g, point |-> NoPoint]}
       ELSE {[grid |-> carve(g, point.x, point.z, dir),
              point |-> Point2(point.x + dx(dir), point.z + dz(dir))] :
             dir \in open}

\* walk(point): the outcomes [grid, point] of one call; the first direction
\* of the shuffled order that passes the test is any direction that passes
\* it, and the result is null (NoPoint) when none does.
walk(g, point) ==
  LET open == {dir \in Directions : canCarve(g, point.x, point.z, dir)}
  IN IF open = {}
       THEN {[grid |-> g, point |-> NoPoint]}
       ELSE {[grid |-> carve(g, point.x, point.z, dir),
              point |-> Point2(point.x + dx(dir), point.z + dz(dir))] :
             dir \in open}

\* the neighbors array hunt builds for the unvisited cell (x, y)
huntNeighbors(g, x, y) ==
  (IF y + 1 < height /\ g[y + 1][x] # 0 THEN <<North>> ELSE <<>>)
  \o (IF y > 0 /\ g[y - 1][x] # 0 THEN <<South>> ELSE <<>>)
  \o (IF x + 1 < width /\ g[y][x + 1] # 0 THEN <<East>> ELSE <<>>)
  \o (IF x > 0 /\ g[y][x - 1] # 0 THEN <<West>> ELSE <<>>)

\* what hunt does with the direction it drew for the cell (x, y): TRUE when
\* it connects and returns, FALSE when it warns and goes on scanning
huntConnects(x, y, direction) == inBounds(x + dx(direction), y + dz(direction))

\* hunt(): the outcomes [grid, point] of the raster scan from cell number idx
RECURSIVE huntFrom(_, _)
huntFrom(g, idx) ==
  IF idx >= width * height
    THEN {[grid |-> g, point |-> NoPoint]}
    ELSE LET x == idx % width
             y == idx \div width
             neighbors == huntNeighbors(g, x, y)
         IN IF g[y][x] # 0 \/ neighbors = <<>>
              THEN huntFrom(g, idx + 1)
              ELSE UNION {IF huntConnects(x, y, neighbors[n])
                            THEN {[grid |-> carve(g, x, y, neighbors[n]),
                                   point |-> Point2(x, y)]}
                            ELSE huntFrom(g, idx + 1) :
                          n \in 1 .. Len(neighbors)}

hunt(g) == huntFrom(g, 0)

\* one iteration of generateMaze's loop in which walk succeeds
Walk ==
  /\ pc = "walkhunt"
  /\ \E w \in walk(grid, node) :
       /\ w.point # NoPoint
       /\ grid' = w.grid
       /\ node' = w.point
  /\ UNCHANGED <<gameVars, version, width, height, pc, error, stack, wallSegments,
                 wallBoxes, wallLists, query, readCells, result>>

\* one iteration in which walk fails and hunt returns a cell
Hunt ==
  /\ pc = "walkhunt"
  /\ \E w \in walk(grid, node) : w.point = NoPoint
  /\ \E r \in hunt(grid) :
       /\ r.point # NoPoint
       /\ grid' = r.grid
       /\ node' = r.point
  /\ UNCHANGED <<gameVars, version, width, height, pc, error, stack, wallSegments,
                 wallBoxes, wallLists, query, readCells, result>>

\* the iteration in which walk fails and hunt returns null: break
HuntEnds ==
  /\ pc = "walkhunt"
  /\ \E w \in walk(grid, node) : w.point = NoPoint
  /\ \E r \in hunt(grid) : r.point = NoPoint
  /\ pc' = "generated"
  /\ UNCHANGED <<gameVars, version, width, height, error, grid, stack, node,
                 wallSegments, wallBoxes, wallLists, query, readCells, result>>

\* ------------------------------------------------------------------------
\* Wall segments

fromCoords(x1, z1, x2, z2) == [p1 |-> Point2(x1, z1), p2 |-> Point2(x2, z2)]

Min(a, b) == IF a < b THEN a ELSE b

Max(a, b) == IF a > b THEN a ELSE b

\* this.grid[0].length and this.grid.length
gridWidth(g) == Cardinality(DOMAIN g[0])

gridHeight(g) == Cardinality(DOMAIN g)

\* the four boundary segments both versions push first
boundarySegments(w, h) ==
  <<fromCoords(0, 0, 0, h), fromCoords(w, 0, w, h),
    fromCoords(0, 0, w, 0), fromCoords(0, h, w, h)>>

\* hasPassage of the vertical line i at position j (Maze.createWallSegments)
passageAcrossVertical(g, i, j) ==
  j < gridHeight(g) /\ (hasBit(g[j][i - 1], East) \/ hasBit(g[j][i], West))

\* hasPassage of the horizontal line j at position i
passageAcrossHorizontal(g, j, i) ==
  i < gridWidth(g) /\ (hasBit(g[j - 1][i], South) \/ hasBit(g[j][i], North))

\* the scan of one line without the push after the loop
RECURSIVE scanLineNoFlush(_, _, _, _)
scanLineNoFlush(hasPassage, k, start, runs) ==
  IF k > Len(hasPassage) - 1
    THEN runs
    ELSE IF ~hasPassage[k + 1]
           THEN scanLineNoFlush(hasPassage, k + 1,
                                IF start = <<>> THEN <<k>> ELSE start, runs)
           ELSE IF start # <<>>
                  THEN scanLineNoFlush(hasPassage, k + 1, <<>>,
                                       Append(runs, <<start[1], k>>))
                  ELSE scanLineNoFlush(hasPassage, k + 1, start, runs)

\* The scan of one line of Maze.createWallSegments over the positions
\* k .. n, hasPassage[k + 1] being the test at position k; start is <<>> for
\* null.  The runs <<from, to>> it pushes, in order, the push after the loop
\* included.
RECURSIVE scanLine(_, _, _, _)
scanLine(hasPassage, k, start, runs) ==
  LET n == Len(hasPassage) - 1
  IN IF k > n
       THEN IF start # <<>> THEN Append(runs, <<start[1], n>>) ELSE runs
       ELSE IF ~hasPassage[k + 1]
              THEN scanLine(hasPassage, k + 1,
                            IF start = <<>> THEN <<k>> ELSE start, runs)
              ELSE IF start # <<>>
                     THEN scanLine(hasPassage, k + 1, <<>>,
                                   Append(runs, <<start[1], k>>))
                     ELSE scanLine(hasPassage, k + 1, start, runs)

verticalRuns(g, i) ==
  scanLine([k \in 1 .. gridHeight(g) + 1 |-> passageAcrossVertical(g, i, k - 1)],
           0, <<>>, <<>>)

horizontalRuns(g, j) ==
  scanLine([k \in 1 .. gridWidth(g) + 1 |-> passageAcrossHorizontal(g, j, k - 1)],
           0, <<>>, <<>>)

RECURSIVE verticalSegments(_, _)
verticalSegments(g, i) ==
  IF i >= gridWidth(g)
    THEN <<>>
    ELSE LET runs == verticalRuns(g, i)
         IN [n \in 1 .. Len(runs) |-> fromCoords(i, runs[n][1], i, runs[n][2])]
            \o verticalSegments(g, i + 1)

RECURSIVE horizontalSegments(_, _)
horizontalSegments(g, j) ==
  IF j >= gridHeight(g)
    THEN <<>>
    ELSE LET runs == horizontalRuns(g, j)
         IN [n \in 1 .. Len(runs) |-> fromCoords(runs[n][1], j, runs[n][2], j)]
            \o horizontalSegments(g, j + 1)

\* Maze.createWallSegments
createWallSegments(g) ==
  boundarySegments(gridWidth(g), gridHeight(g))
  \o verticalSegments(g, 1) \o horizontalSegments(g, 1)

\* The earlier class: a position is walled when the cell before the line
\* lacks the bit; the end of the scan is the test's j < h, with no push after
\* the loop.
walledVerticalOld(g, i, j) == j < gridHeight(g) /\ ~hasBit(g[j][i - 1], East)

walledHorizontalOld(g, k, i) == i < gridWidth(g) /\ ~hasBit(g[k - 1][i], South)

RECURSIVE scanLineOld(_, _, _, _)
scanLineOld(walled, k, start, runs) ==
  IF k > Len(walled) - 1
    THEN runs
    ELSE IF walled[k + 1]
           THEN scanLineOld(walled, k + 1,
                            IF start = <<>> THEN <<k>> ELSE start, runs)
           ELSE IF start # <<>>
                  THEN scanLineOld(walled, k + 1, <<>>,
                                   Append(runs, <<start[1], k>>))
                  ELSE scanLineOld(walled, k + 1, start, runs)

RECURSIVE verticalSegmentsOld(_, _)
verticalSegmentsOld(g, i) ==
  IF i >= gridWidth(g)
    THEN <<>>
    ELSE LET runs == scanLineOld([k \in 1 .. gridHeight(g) + 1 |->
                                    walledVerticalOld(g, i, k - 1)],
                                 0, <<>>, <<>>)
         IN [n \in 1 .. Len(runs) |-> fromCoords(i, runs[n][1], i, runs[n][2])]
            \o verticalSegmentsOld(g, i + 1)

RECURSIVE horizontalSegmentsOld(_, _)
horizontalSegmentsOld(g, k) ==
  IF k >= gridHeight(g)
    THEN <<>>
    ELSE LET runs == scanLineOld([i \in 1 .. gridWidth(g) + 1 |->
                                    walledHorizontalOld(g, k, i - 1)],
                                 0, <<>>, <<>>)
         IN [n \in 1 .. Len(runs) |-> fromCoords(runs[n][1], k, runs[n][2], k)]
            \o horizontalSegmentsOld(g, k + 1)

\* createWallSegments of the earlier class
createWallSegmentsOld(g) ==
  boundarySegments(gridWidth(g), gridHeight(g))
  \o verticalSegmentsOld(g, 1) \o horizontalSegmentsOld(g, 1)

\* this.grid[0] is undefined for a grid without rows: reading its length
\* throws a TypeError
CreateWallSegmentsThrows ==
  /\ pc = "generated"
  /\ gridHeight(grid) = 0
  /\ pc' = "threw"
  /\ error' = "TypeError"
  /\ UNCHANGED <<gameVars, version, width, height, grid, stack, node, wallSegments,
                 wallBoxes, wallLists, query, readCells, result>>

CreateWallSegments ==
  /\ pc = "generated"
  /\ gridHeight(grid) # 0
  /\ wallSegments' = IF version = "backtracker"
                       THEN createWallSegments(grid)
                       ELSE createWallSegmentsOld(grid)
  /\ pc' = "segmented"
  /\ UNCHANGED <<gameVars, version, width, height, error, grid, stack, node,
                 wallBoxes, wallLists, query, readCells, result>>

\* the rest of generateMazeLineSegments builds line geometry only
GenerateMazeLineSegments ==
  /\ pc = "segmented"
  /\ version = "huntkill"
  /\ pc' = "ready"
  /\ UNCHANGED <<gameVars, version, width, height, error, grid, stack, node,
                 wallSegments, wallBoxes, wallLists, query, readCells, result>>

\* ------------------------------------------------------------------------
\* generateMazeMesh: one box collider per wall segment, then the lookup

\* The Box3 of a segment's wall mesh on the x and z axes, in units of 1/20
\* of a world unit, in which half of wallThickness (cellSize * 0.1) is
\* cellSize.
wallBox(segment) ==
  LET p1 == segment.p1
      p2 == segment.p2
  IN IF p1.x = p2.x
       THEN [xMin |-> 20 * p1.x * CellSize - CellSize,
             xMax |-> 20 * p1.x * CellSize + CellSize,
             zMin |-> 20 * Min(p1.z, p2.z) * CellSize - CellSize,
             zMax |-> 20 * Max(p1.z, p2.z) * CellSize + CellSize]
       ELSE [xMin |-> 20 * Min(p1.x, p2.x) * CellSize - CellSize,
             xMax |-> 20 * Max(p1.x, p2.x) * CellSize + CellSize,
             zMin |-> 20 * p1.z * CellSize - CellSize,
             zMax |-> 20 * p1.z * CellSize + CellSize]

\* the loop over k of a vertical segment at grid x = i; a collider is named
\* by its index idx in wallBoxes
RECURSIVE pushVertical(_, _, _, _, _)
pushVertical(lists, idx, i, k, end) ==
  IF k >= end
    THEN lists
    ELSE LET l1 == IF i > 0 /\ k >= 0 /\ k < height
                     THEN [lists EXCEPT ![k][i - 1] = Append(@, idx)]
                     ELSE lists
             l2 == IF i < width /\ k >= 0 /\ k < height
                     THEN [l1 EXCEPT ![k][i] = Append(@, idx)]
                     ELSE l1
         IN pushVertical(l2, idx, i, k + 1, end)

\* the loop over k of a horizontal segment at grid z = j
RECURSIVE pushHorizontal(_, _, _, _, _)
pushHorizontal(lists, idx, j, k, end) ==
  IF k >= end
    THEN lists
    ELSE LET l1 == IF j > 0 /\ k >= 0 /\ k < width
                     THEN [lists EXCEPT ![j - 1][k] = Append(@, idx)]
                     ELSE lists
             l2 == IF j < height /\ k >= 0 /\ k < width
                     THEN [l1 EXCEPT ![j][k] = Append(@, idx)]
                     ELSE l1
         IN pushHorizontal(l2, idx, j, k + 1, end)

\* the body of populateWallLists' loop for the segment number idx
pushSegment(lists, idx, segment) ==
  IF segment.p1.x = segment.p2.x
    THEN pushVertical(lists, idx, segment.p1.x,
                      Min(segment.p1.z, segment.p2.z),
                      Max(segment.p1.z, segment.p2.z))
    ELSE IF segment.p1.z = segment.p2.z
           THEN pushHorizontal(lists, idx, segment.p1.z,
                               Min(segment.p1.x, segment.p2.x),
                               Max(segment.p1.x, segment.p2.x))
           ELSE lists

RECURSIVE populateFrom(_, _, _)
populateFrom(lists, segments, idx) ==
  IF idx > Len(segments)
    THEN lists
    ELSE populateFrom(pushSegment(lists, idx, segments[idx]), segments, idx + 1)

populateWallLists(segments) ==
  populateFrom([z \in 0 .. height - 1 |-> [x \in 0 .. width - 1 |-> <<>>]],
               segments, 1)

GenerateMazeMesh ==
  /\ pc = "segmented"
  /\ version = "backtracker"
  /\ wallBoxes' = [idx \in 1 .. Len(wallSegments) |-> wallBox(wallSegments[idx])]
  /\ wallLists' = populateWallLists(wallSegments)
  /\ pc' = "ready"
  /\ UNCHANGED <<gameVars, version, width, height, error, grid, stack, node,
                 wallSegments, query, readCells, result>>

\* ------------------------------------------------------------------------
\* Spatial queries.  A position is (x, z) in whole world units and a size is
\* a whole number, so (pos - size / 2) / cellSize is (2 pos - size) / (2
\* cellSize).

QueryPositions(n) == -QueryMargin .. n * CellSize + QueryMargin

QuerySizes == {0, 1, CellSize, 2 * CellSize + 1}

\* the lower index without the clamp to 0
minGridUnclamped(pos, size) == (2 * pos - size) \div (2 * CellSize)

\* Math.max(0, Math.floor(min / this.cellSize))
minGrid(pos, size) == Max(0, (2 * pos - size) \div (2 * CellSize))

\* Math.min(n - 1, Math.floor(max / this.cellSize)), n the width or height
maxGrid(pos, size, n) == Min(n - 1, (2 * pos + size) \div (2 * CellSize))

\* the bucket indices <<gridZ, gridX>> the two loops visit
cellsRead(px, pz, size) ==
  {<<gridZ, gridX>> : gridZ \in minGrid(pz, size) .. maxGrid(pz, size, height),
                      gridX \in minGrid(px, size) .. maxGrid(px, size, width)}

\* lists[gridZ][gridX]; an index outside the lookup reads undefined
bucket(lists, gridZ, gridX) ==
  IF gridZ \in DOMAIN lists /\ gridX \in DOMAIN lists[gridZ]
    THEN lists[gridZ][gridX]
    ELSE <<>>

RECURSIVE concatRow(_, _, _, _)
concatRow(lists, gridZ, gridX, maxGridX) ==
  IF gridX > maxGridX
    THEN <<>>
    ELSE bucket(lists, gridZ, gridX) \o concatRow(lists, gridZ, gridX + 1, maxGridX)

RECURSIVE concatRows(_, _, _, _, _)
concatRows(lists, gridZ, maxGridZ, minGridX, maxGridX) ==
  IF gridZ > maxGridZ
    THEN <<>>
    ELSE concatRow(lists, gridZ, minGridX, maxGridX)
         \o concatRows(lists, gridZ + 1, maxGridZ, minGridX, maxGridX)

\* seq without the repeated occurrences of an element
RECURSIVE withoutRepeats(_)
withoutRepeats(seq) ==
  IF seq = <<>>
    THEN <<>>
    ELSE LET front == withoutRepeats(SubSeq(seq, 1, Len(seq) - 1))
             last == seq[Len(seq)]
         IN IF \E n \in DOMAIN front : front[n] = last
              THEN front
              ELSE Append(front, last)

\* the query with a collider pushed only when it is not yet in wallSet
nearbyWallCollidersOnce(px, pz, size) ==
  withoutRepeats(concatRows(wallLists, minGrid(pz, size),
                            maxGrid(pz, size, height),
                            minGrid(px, size), maxGrid(px, size, width)))

\* the array getNearbyWallColliders returns
nearbyWallColliders(px, pz, size) ==
  concatRows(wallLists, minGrid(pz, size), maxGrid(pz, size, height),
             minGrid(px, size), maxGrid(px, size, width))

GetNearbyWallColliders ==
  /\ pc = "ready"
  /\ version = "backtracker"
  /\ query = "none"
  /\ \E px \in QueryPositions(width), pz \in QueryPositions(height),
        size \in QuerySizes :
       /\ readCells' = cellsRead(px, pz, size)
       /\ result' = nearbyWallColliders(px, pz, size)
  /\ query' = "walls"
  /\ UNCHANGED <<gameVars, version, width, height, pc, error, grid, stack, node,
                 wallSegments, wallBoxes, wallLists>>

\* getNearbyPellets visits the buckets of pelletLists, which has the shape
\* of wallLists, with the same index computation
GetNearbyPellets ==
  /\ pc = "ready"
  /\ version = "backtracker"
  /\ query = "none"
  /\ \E px \in QueryPositions(width), pz \in QueryPositions(height),
        size \in QuerySizes :
       readCells' = cellsRead(px, pz, size)
  /\ query' = "pellets"
  /\ UNCHANGED <<gameVars, version, width, height, pc, error, grid, stack, node,
                 wallSegments, wallBoxes, wallLists, result>>

\* the caller drops the returned array
QueryReturns ==
  /\ query # "none"
  /\ query' = "none"
  /\ readCells' = {}
  /\ result' = <<>>
  /\ UNCHANGED <<gameVars, version, width, height, pc, error, grid, stack, node,
                 wallSegments, wallBoxes, wallLists>>

Next ==
  \/ ConstructThrows
  \/ ConstructBacktracker
  \/ CarveRecurse
  \/ CarveReturn
  \/ ConstructHuntKill
  \/ Walk
  \/ Hunt
  \/ HuntEnds
  \/ CreateWallSegmentsThrows
  \/ CreateWallSegments
  \/ GenerateMazeLineSegments
  \/ GenerateMazeMesh
  \/ GetNearbyWallColliders
  \/ GetNearbyPellets
  \/ QueryReturns

Spec == Init /\ [][Next]_vars

\* generateMaze runs to completion inside the constructor: its loop keeps
\* iterating
FairSpec == Spec /\ WF_vars(Walk \/ Hunt \/ HuntEnds)

\* ------------------------------------------------------------------------
\* Supervisor: a Player of some size at the origin and a Maze, then calls of
\* willCollide.  Lengths are in units of 1/20 of a world unit, as in wallBox.

PlayerSizes == {1, CellSize, 2 * CellSize + 1}

\* the heights of a candidate position: inside the walls' height and above it
CandidateHeights == {1, WallHeight + CellSize + 2}

Point3(x, y, z) == [x |-> x, y |-> y, z |-> z]

\* the field initialisers of Supervisor: new Player(size, this) stands at
\* (0, 0, 0), and new Maze(...) is about to run
SupervisorInit ==
  /\ version = "backtracker"
  /\ width \in 1 .. MaxWidth
  /\ height \in 1 .. MaxHeight
  /\ width * height <= MaxPlayCells
  /\ pc = "new"
  /\ error = "none"
  /\ grid = <<>>
  /\ stack = <<>>
  /\ node = NoPoint
  /\ wallSegments = <<>>
  /\ wallBoxes = <<>>
  /\ wallLists = <<>>
  /\ query = "none"
  /\ readCells = {}
  /\ result = <<>>
  /\ player = Point2(0, 0)
  /\ playerSize \in PlayerSizes
  /\ candidate = <<>>
  /\ collisions = <<>>
  /\ NoRunner
  /\ NoPellets
  /\ NoPlay
  /\ NoClock

\* Player.getBoundingBoxAt
getBoundingBoxAt(position, size) ==
  [xMin |-> 20 * position.x - 10 * size, xMax |-> 20 * position.x + 10 * size,
   yMin |-> 20 * position.y - 10 * size, yMax |-> 20 * position.y + 10 * size,
   zMin |-> 20 * position.z - 10 * size, zMax |-> 20 * position.z + 10 * size]

\* Box3.intersectsBox; a wall's box spans 0 .. wallHeight on the y axis
intersectsBox(box, wall) ==
  ~(\/ wall.xMax < box.xMin \/ wall.xMin > box.xMax
    \/ 20 * WallHeight < box.yMin \/ 0 > box.yMax
    \/ wall.zMax < box.zMin \/ wall.zMin > box.zMax)

overlapX(box, wall) == Min(box.xMax, wall.xMax) - Max(box.xMin, wall.xMin)

overlapZ(box, wall) == Min(box.zMax, wall.zMax) - Max(box.zMin, wall.zMin)

\* the collision pushed with the axis of the larger overlap
wallCollisionLargerAxis(playerBox, idx) ==
  LET wall == wallBoxes[idx]
  IN IF overlapX(playerBox, wall) > overlapZ(playerBox, wall)
       THEN [wall |-> idx,
             normal |-> <<IF playerBox.xMin + playerBox.xMax
                               < wall.xMin + wall.xMax THEN -1 ELSE 1, 0, 0>>,
             depth |-> overlapX(playerBox, wall)]
       ELSE [wall |-> idx,
             normal |-> <<0, 0, IF playerBox.zMin + playerBox.zMax
                                     < wall.zMin + wall.zMax THEN -1 ELSE 1>>,
             depth |-> overlapZ(playerBox, wall)]

\* The ICollision pushed for the intersecting wall number idx; the field
\* wall names the collider it comes from (0 for the ground).  The centres
\* are compared doubled.
wallCollision(playerBox, idx) ==
  LET wall == wallBoxes[idx]
  IN IF overlapX(playerBox, wall) < overlapZ(playerBox, wall)
       THEN [wall |-> idx,
             normal |-> <<IF playerBox.xMin + playerBox.xMax
                               < wall.xMin + wall.xMax THEN -1 ELSE 1, 0, 0>>,
             depth |-> overlapX(playerBox, wall)]
       ELSE [wall |-> idx,
             normal |-> <<0, 0, IF playerBox.zMin + playerBox.zMax
                                     < wall.zMin + wall.zMax THEN -1 ELSE 1>>,
             depth |-> overlapZ(playerBox, wall)]

\* the loop of willCollide over wallsNearby from its n-th element
RECURSIVE wallCollisions(_, _, _)
wallCollisions(playerBox, wallsNearby, n) ==
  IF n > Len(wallsNearby)
    THEN <<>>
    ELSE (IF intersectsBox(playerBox, wallBoxes[wallsNearby[n]])
            THEN <<wallCollision(playerBox, wallsNearby[n])>>
            ELSE <<>>)
         \o wallCollisions(playerBox, wallsNearby, n + 1)

\* Supervisor.willCollide(position)
willCollide(position) ==
  LET playerBox == getBoundingBoxAt(position, playerSize)
      ground == IF playerBox.yMin < 0
                  THEN <<[wall |-> 0, normal |-> <<0, 1, 0>>,
                          depth |-> -playerBox.yMin]>>
                  ELSE <<>>
      wallsNearby == nearbyWallColliders(player.x, player.z, playerSize)
  IN ground \o wallCollisions(playerBox, wallsNearby, 1)

\* Player.setPosition
SetPosition ==
  /\ pc = "ready"
  /\ player # NoPoint
  /\ candidate = <<>>
  /\ \E x \in QueryPositions(width), z \in QueryPositions(height) :
       player' = Point2(x, z)
  /\ UNCHANGED <<version, width, height, pc, error, grid, stack, node,
                 wallSegments, wallBoxes, wallLists, query, readCells, result,
                 playerSize, candidate, collisions, runnerVars, pelletVars, playVars,
                 clockVars, stateVars>>

\* a call of willCollide, up to its return
WillCollide ==
  /\ pc = "ready"
  /\ player # NoPoint
  /\ candidate = <<>>
  /\ \E ox \in -MaxStep .. MaxStep, oz \in -MaxStep .. MaxStep,
        y \in CandidateHeights :
       LET position == Point3(player.x + ox, y, player.z + oz)
       IN /\ candidate' = position
          /\ collisions' = willCollide(position)
  /\ query' = "walls"
  /\ readCells' = cellsRead(player.x, player.z, playerSize)
  /\ result' = nearbyWallColliders(player.x, player.z, playerSize)
  /\ UNCHANGED <<version, width, height, pc, error, grid, stack, node,
                 wallSegments, wallBoxes, wallLists, player, playerSize, runnerVars,
                 pelletVars, playVars,
                 clockVars, stateVars>>

\* the caller is done with the returned array
WillCollideReturns ==
  /\ candidate # <<>>
  /\ candidate' = <<>>
  /\ collisions' = <<>>
  /\ query' = "none"
  /\ readCells' = {}
  /\ result' = <<>>
  /\ UNCHANGED <<version, width, height, pc, error, grid, stack, node,
                 wallSegments, wallBoxes, wallLists, player, playerSize, runnerVars,
                 pelletVars, playVars,
                 clockVars, stateVars>>

CollisionNext ==
  \/ ConstructBacktracker
  \/ CarveRecurse
  \/ CarveReturn
  \/ CreateWallSegments
  \/ GenerateMazeMesh
  \/ SetPosition
  \/ WillCollide
  \/ WillCollideReturns

CollisionSpec == SupervisorInit /\ [][CollisionNext]_vars

\* ------------------------------------------------------------------------
\* MazeRunner: getPathToTile over the passages of the maze

\* the internal edges <<x, z, dir>> of a w x h grid, dir East or South
edges(w, h) ==
  {e \in (0 .. w - 1) \X (0 .. h - 1) \X {East, South} :
     IF e[3] = East THEN e[1] + 1 < w ELSE e[2] + 1 < h}

\* the grid whose passages are the edges of open, both bits of each set
passageGrid(w, h, open) ==
  [z \in 0 .. h - 1 |->
     [x \in 0 .. w - 1 |->
        (IF <<x, z - 1, South>> \in open THEN North ELSE 0)
        + (IF <<x, z, South>> \in open THEN South ELSE 0)
        + (IF <<x, z, East>> \in open THEN East ELSE 0)
        + (IF <<x - 1, z, East>> \in open THEN West ELSE 0)]]

\* Maze.getNeighbors(x, z): the cells behind the passage bits of (x, z), in
\* the order of the Direction enum; a cell outside the grid has none
getNeighbors(x, z) ==
  IF ~inBounds(x, z)
    THEN <<>>
    ELSE LET behind(dir) == IF hasBit(grid[z][x], dir)
                              THEN <<Point2(x + dx(dir), z + dz(dir))>>
                              ELSE <<>>
         IN behind(North) \o behind(South) \o behind(East) \o behind(West)

abs(n) == IF n < 0 THEN -n ELSE n

heuristic(a, b) == abs(a.x - b.x) + abs(a.z - b.z)

\* new AStarNode(tile, parent, g, f); parent is <<>> for null
AStarNode(tile, parent, g, f) == [tile |-> tile, parent |-> parent, g |-> g, f |-> f]

\* `${x},${z}`
key(tile) == <<tile.x, tile.z>>

\* the tiles from the node back to the start, not reversed
RECURSIVE pathFromGoal(_)
pathFromGoal(current) ==
  IF current = <<>>
    THEN <<>>
    ELSE <<current.tile>> \o pathFromGoal(current.parent)

RECURSIVE reversePath(_)
reversePath(current) ==
  IF current = <<>>
    THEN <<>>
    ELSE Append(reversePath(current.parent), current.tile)

\* list with n put behind the last element whose f is not above n.f
insertByF(list, n) ==
  LET k == Cardinality({m \in DOMAIN list : list[m].f <= n.f})
  IN SubSeq(list, 1, k) \o <<n>> \o SubSeq(list, k + 1, Len(list))

\* openList.sort((a, b) => a.f - b.f): a stable sort
RECURSIVE sortByF(_)
sortByF(list) ==
  IF list = <<>>
    THEN <<>>
    ELSE insertByF(sortByF(SubSeq(list, 1, Len(list) - 1)), list[Len(list)])

\* new AStarNode(neighbor, current, tentativeG, hCost)
neighborNode(neighbor, current, goal) ==
  AStarNode(neighbor, current, current.g + 1, heuristic(neighbor, goal))

\* the loop over the neighbors of current, from the n-th one
RECURSIVE expand(_, _, _, _, _, _, _)
expand(neighbors, n, current, goal, openList, closedList, allNodes) ==
  IF n > Len(neighbors)
    THEN [openList |-> openList, allNodes |-> allNodes]
    ELSE LET neighbor == neighbors[n]
             pushed == ~(key(neighbor) \in closedList)
                       /\ (\/ ~(key(neighbor) \in DOMAIN allNodes)
                           \/ current.g + 1 < allNodes[key(neighbor)].g)
             new == neighborNode(neighbor, current, goal)
         IN IF pushed
              THEN expand(neighbors, n + 1, current, goal,
                          Append(openList, new), closedList,
                          (key(neighbor) :> new) @@ allNodes)
              ELSE expand(neighbors, n + 1, current, goal,
                          openList, closedList, allNodes)

\* The while loop of getPathToTile; iterations counts down the iterations the
\* model follows.
RECURSIVE searchLoop(_, _, _, _, _)
searchLoop(goal, openList, closedList, allNodes, iterations) ==
  IF openList = <<>>
    THEN [status |-> "none", path |-> <<>>]
    ELSE IF iterations = 0
      THEN [status |-> "running", path |-> <<>>]
      ELSE LET sorted == sortByF(openList)
               current == Head(sorted)
           IN IF current.tile.x = goal.x /\ current.tile.z = goal.z
                THEN [status |-> "found", path |-> reversePath(current)]
                ELSE LET closed == closedList \cup {key(current.tile)}
                         e == expand(getNeighbors(current.tile.x, current.tile.z),
                                     1, current, goal, Tail(sorted), closed,
                                     allNodes)
                     IN searchLoop(goal, e.openList, closed, e.allNodes,
                                   iterations - 1)

\* the iterations of the loop the model follows before it reports the search
\* as still running
maxIterations == (width * height + 1) * (width * height + 1)

\* MazeRunner.getPathToTile(start, goal): status "found" with the path,
\* "none" for null
getPathToTile(from, goal) ==
  LET startNode == AStarNode(from, <<>>, 0, heuristic(from, goal))
  IN searchLoop(goal, <<startNode>>, {}, key(from) :> startNode, maxIterations)

\* a Maze whose grid is any passage graph, and a call about to be made for
\* any two tiles of the grid
PathInit ==
  /\ version = "backtracker"
  /\ width \in 1 .. MaxPathWidth
  /\ height \in 1 .. MaxPathHeight
  /\ width * height <= MaxPathCells
  /\ pc = "ready"
  /\ error = "none"
  /\ grid \in {passageGrid(width, height, open) :
                 open \in SUBSET edges(width, height)}
  /\ stack = <<>>
  /\ node = NoPoint
  /\ wallSegments = createWallSegments(grid)
  /\ wallBoxes = [idx \in 1 .. Len(wallSegments) |-> wallBox(wallSegments[idx])]
  /\ wallLists = populateWallLists(wallSegments)
  /\ query = "none"
  /\ readCells = {}
  /\ result = <<>>
  /\ player = NoPoint
  /\ playerSize = 0
  /\ candidate = <<>>
  /\ collisions = <<>>
  /\ startTile \in {Point2(x, z) : x \in 0 .. width - 1, z \in 0 .. height - 1}
  /\ goalTile \in {Point2(x, z) : x \in 0 .. width - 1, z \in 0 .. height - 1}
  /\ found = Idle
  /\ runner = NoPoint
  /\ target = NoPoint
  /\ path = <<>>
  /\ currentTargetIndex = 0
  /\ recomputed = FALSE
  /\ NoPellets
  /\ NoPlay
  /\ NoClock

GetPathToTile ==
  /\ found = Idle
  /\ found' = getPathToTile(startTile, goalTile)
  /\ UNCHANGED <<version, width, height, pc, error, grid, stack, node,
                 wallSegments, wallBoxes, wallLists, query, readCells, result,
                 player, playerSize, candidate, collisions, startTile,
                 goalTile, runner, target, path, currentTargetIndex, recomputed,
                 pelletVars, playVars,
                 clockVars, stateVars>>

PathNext == GetPathToTile

PathSpec == PathInit /\ [][PathNext]_vars

\* ------------------------------------------------------------------------
\* MazeRunner.update.  Positions on the x and z axes are in half cells: the
\* cell of a position p is floor(p / 2) and the centre of cell c is 2c + 1.

\* Math.floor(pos / mazeCellSize), on both axes
gridOf(position) == Point2(position.x \div 2, position.z \div 2)

\* the corner of the cell instead of its centre
cornerWorldPos(nextPoint) == Point2(2 * nextPoint.x, 2 * nextPoint.z)

\* ((nextPoint.x + 0.5) * mazeCellSize, (nextPoint.z + 0.5) * mazeCellSize)
targetWorldPos(nextPoint) == Point2(2 * nextPoint.x + 1, 2 * nextPoint.z + 1)

\* a recomputation on every tick
mustRecomputeAlways == TRUE

\* the condition under which update calls getPathToTile
mustRecompute ==
  \/ Len(path) = 0
  \/ currentTargetIndex >= Len(path)
  \/ path[Len(path)].x # gridOf(target).x
  \/ path[Len(path)].z # gridOf(target).z

\* the positions newPos can take when distanceToMove < distanceToTarget: the
\* points of the model's lattice on the segment from a to b, b excluded
between(a, b) ==
  {p \in {Point2(x, z) : x \in Min(a.x, b.x) .. Max(a.x, b.x),
                          z \in Min(a.z, b.z) .. Max(a.z, b.z)} :
     /\ (p.x - a.x) * (b.z - a.z) = (p.z - a.z) * (b.x - a.x)
     /\ p # b}

\* the cells the target stands in: those of the grid and of the column west
\* of it
TargetCells == {Point2(x, z) : x \in -1 .. width - 1, z \in 0 .. height - 1}

\* a MazeRunner somewhere in a Maze whose grid is any passage graph, or just
\* west of it, and its target
RunnerInit ==
  /\ version = "backtracker"
  /\ width \in 1 .. MaxWidth
  /\ height \in 1 .. MaxHeight
  /\ width * height <= MaxPlayCells
  /\ pc = "ready"
  /\ error = "none"
  /\ grid \in {passageGrid(width, height, open) :
                 open \in SUBSET edges(width, height)}
  /\ stack = <<>>
  /\ node = NoPoint
  /\ wallSegments = createWallSegments(grid)
  /\ wallBoxes = [idx \in 1 .. Len(wallSegments) |-> wallBox(wallSegments[idx])]
  /\ wallLists = populateWallLists(wallSegments)
  /\ query = "none"
  /\ readCells = {}
  /\ result = <<>>
  /\ player = NoPoint
  /\ playerSize = 0
  /\ candidate = <<>>
  /\ collisions = <<>>
  /\ startTile = NoPoint
  /\ goalTile = NoPoint
  /\ found = Idle
  /\ runner \in {Point2(x, z) : x \in -1 .. 2 * width - 1, z \in 0 .. 2 * height - 1}
  /\ target \in {targetWorldPos(c) : c \in TargetCells}
  /\ path = <<>>
  /\ currentTargetIndex = 0
  /\ recomputed = FALSE
  /\ NoPellets
  /\ NoPlay
  /\ NoClock

\* MazeRunner.update(context) with a target; context.deltaTime decides
\* whether the step reaches targetWorldPos and, if not, how far it goes
Update ==
  /\ runner # NoPoint
  /\ LET call == getPathToTile(gridOf(runner), gridOf(target))
         newPath == IF mustRecompute THEN call.path ELSE path
         index == IF mustRecompute THEN 0 ELSE currentTargetIndex
     IN /\ recomputed' = mustRecompute
        /\ startTile' = IF mustRecompute THEN gridOf(runner) ELSE NoPoint
        /\ goalTile' = IF mustRecompute THEN gridOf(target) ELSE NoPoint
        /\ found' = IF mustRecompute THEN call ELSE Idle
        /\ path' = newPath
        /\ IF index < Len(newPath)
             THEN \/ /\ currentTargetIndex' = index + 1
                     /\ runner' = targetWorldPos(newPath[index + 1])
                  \/ /\ currentTargetIndex' = index
                     /\ runner' \in between(runner, targetWorldPos(newPath[index + 1]))
             ELSE /\ currentTargetIndex' = index
                  /\ runner' = runner
  /\ UNCHANGED <<version, width, height, pc, error, grid, stack, node,
                 wallSegments, wallBoxes, wallLists, query, readCells, result,
                 player, playerSize, candidate, collisions, target, pelletVars,
                 playVars,
                 clockVars, stateVars>>

\* the target moves between two updates
TargetMoves ==
  /\ runner # NoPoint
  /\ \E c \in TargetCells :
       /\ target' = targetWorldPos(c)
       /\ target' # target
  /\ UNCHANGED <<version, width, height, pc, error, grid, stack, node,
                 wallSegments, wallBoxes, wallLists, query, readCells, result,
                 player, playerSize, candidate, collisions, startTile,
                 goalTile, found, runner, path, currentTargetIndex, recomputed,
                 pelletVars, playVars,
                 clockVars, stateVars>>

RunnerNext ==
  \/ Update
  \/ TargetMoves

RunnerSpec == RunnerInit /\ [][RunnerNext]_vars

\* update with context.deltaTime > 0: distanceToMove is positive, so an
\* agent that has a cell to walk to reaches its centre or leaves its place
Tick ==
  /\ Update
  /\ \/ runner' # runner
     \/ currentTargetIndex' > (IF recomputed' THEN 0 ELSE currentTargetIndex)
     \/ currentTargetIndex' >= Len(path')

\* a tick of an agent that has a path it need not recompute
Follows == ~mustRecompute /\ Tick

\* a tick of an agent that has not called getPathToTile yet and must
Starts == IF mustRecompute THEN ~recomputed /\ recomputed' = TRUE ELSE FALSE

\* the agent chasing a target that stays where it is. The loop of
\* Supervisor.run calls update on every animation frame, so a tick that is
\* due happens: the first one, which computes the path, and every one that
\* follows the path
ChaseSpec ==
  RunnerInit /\ [][Tick]_vars /\ WF_recomputed(Starts) /\ WF_vars(Follows)

\* ------------------------------------------------------------------------
\* Pellets (Maze.spawnPellets, Maze.removePellet)

\* Array.prototype.indexOf, counted from 1; 0 stands for -1
indexOf(seq, e) ==
  IF \E i \in 1 .. Len(seq) : seq[i] = e
    THEN CHOOSE i \in 1 .. Len(seq) :
           seq[i] = e /\ \A j \in 1 .. i - 1 : seq[j] # e
    ELSE 0

\* seq.splice(index, 1)
splice(seq, index) ==
  [i \in 1 .. Len(seq) - 1 |-> IF i < index THEN seq[i] ELSE seq[i + 1]]

\* a group that never lets go of a child
keepChild(children, mesh) == children

\* Object3D.remove(mesh)
removeChild(children, mesh) ==
  IF indexOf(children, mesh) # 0
    THEN splice(children, indexOf(children, mesh))
    ELSE children

\* buckets left as they are
keptLists(lists) == lists

\* for (const row of this.pelletLists) for (const cell of row) cell.length = 0
clearedLists(lists) ==
  [z \in DOMAIN lists |-> [x \in DOMAIN lists[z] |-> <<>>]]

\* the mesh spawnPellets makes for cell (i, j): position
\* ((i + 0.5) * cellSize, 0, (j + 0.5) * cellSize), in half units
pelletMesh(id, i, j) == Mesh(id, (2 * i + 1) * CellSize, (2 * j + 1) * CellSize)

\* Math.floor(mesh.position.x / this.cellSize), position in half units
pelletGridX(mesh) == mesh.x \div (2 * CellSize)

pelletGridZ(mesh) == mesh.z \div (2 * CellSize)

\* the children of pelletGroup after the double loop: i outer, j inner
spawnedGroup(id) ==
  [n \in 1 .. width * height |-> pelletMesh(id, (n - 1) \div height, (n - 1) % height)]

\* the constructor: the buckets exist and are empty, and no pellet is made
\* before the walls are
PelletInit ==
  /\ version = "backtracker"
  /\ width \in 1 .. MaxWidth
  /\ height \in 1 .. MaxHeight
  /\ width * height <= MaxPlayCells
  /\ pc = "new"
  /\ error = "none"
  /\ grid = <<>>
  /\ stack = <<>>
  /\ node = NoPoint
  /\ wallSegments = <<>>
  /\ wallBoxes = <<>>
  /\ wallLists = <<>>
  /\ query = "none"
  /\ readCells = {}
  /\ result = <<>>
  /\ player = NoPoint
  /\ playerSize = 0
  /\ candidate = <<>>
  /\ collisions = <<>>
  /\ NoRunner
  /\ pelletGroup = <<>>
  /\ pelletLists = [z \in 0 .. height - 1 |-> [x \in 0 .. width - 1 |-> <<>>]]
  /\ spawned = 0
  /\ pelletCall = NoCall
  /\ NoPlay
  /\ NoClock

\* the meshes a caller can hold: the pellets of every spawnPellets call so
\* far, and meshes that never were pellets, inside and around the grid
Handles ==
  {pelletMesh(id, i, j) : id \in 1 .. spawned, i \in 0 .. width - 1, j \in 0 .. height - 1}
    \cup {Mesh(0, x, z) : x \in {-1, CellSize, 2 * CellSize * width},
                          z \in {-1, CellSize, 2 * CellSize * height}}

\* spawnPellets()
SpawnPellets ==
  /\ pc = "ready"
  /\ spawned < MaxSpawns
  /\ spawned' = spawned + 1
  /\ pelletGroup' = spawnedGroup(spawned + 1)
  /\ pelletLists' =
       [z \in 0 .. height - 1 |-> [x \in 0 .. width - 1 |->
          Append(clearedLists(pelletLists)[z][x], pelletMesh(spawned + 1, x, z))]]
  /\ pelletCall' = [op |-> "spawnPellets", mesh |-> NoMesh, threw |-> "none",
                    live |-> Len(pelletGroup)]
  /\ UNCHANGED <<version, width, height, pc, error, grid, stack, node,
                 wallSegments, wallBoxes, wallLists, query, readCells, result,
                 player, playerSize, candidate, collisions, runnerVars, playVars,
                 clockVars, stateVars>>

\* removePellet(mesh): this.pelletLists[gridZ][gridX] throws a TypeError when
\* the row is undefined, and cellPellets.indexOf when the cell is
RemovePellet ==
  /\ pc = "ready"
  /\ \E mesh \in Handles :
       LET gridX == pelletGridX(mesh)
           gridZ == pelletGridZ(mesh)
           throws == ~(gridZ \in DOMAIN pelletLists) \/ ~(gridX \in DOMAIN pelletLists[gridZ])
       IN /\ pelletGroup' = removeChild(pelletGroup, mesh)
          /\ pelletLists' =
               IF throws THEN pelletLists
               ELSE LET cellPellets == pelletLists[gridZ][gridX]
                        index == indexOf(cellPellets, mesh)
                    IN IF index # 0
                         THEN [pelletLists EXCEPT ![gridZ][gridX] = splice(cellPellets, index)]
                         ELSE pelletLists
          /\ pelletCall' = [op |-> "removePellet", mesh |-> mesh,
                            threw |-> IF throws THEN "TypeError" ELSE "none",
                            live |-> Len(pelletGroup)]
  /\ UNCHANGED <<version, width, height, pc, error, grid, stack, node,
                 wallSegments, wallBoxes, wallLists, query, readCells, result,
                 player, playerSize, candidate, collisions, runnerVars, spawned,
                 playVars,
                 clockVars, stateVars>>

PelletNext ==
  \/ ConstructBacktracker
  \/ CarveRecurse
  \/ CarveReturn
  \/ CreateWallSegments
  \/ GenerateMazeMesh
  \/ SpawnPellets
  \/ RemovePellet

PelletSpec == PelletInit /\ [][PelletNext]_vars

\* ------------------------------------------------------------------------
\* The moving Player (Player.update) and the Supervisor that owns it.
\* Player.update multiplies a depth by 0.2 once per call, so positions are
\* kept in fine units, Fine to a world unit, in which MaxTicks calls are
\* exact.  The Player looks along (0, 0, 1): rotation is not followed.

Fine == 100 * 5 ^ MaxTicks

\* private speed = 0.2; private jumpSpeed = 0.2; private gravity = -0.01
speed == Fine \div 5

jumpSpeed == Fine \div 5

gravity == -(Fine \div 100)

\* Player.getBoundingBoxAt, in fine units
boundingBoxAt(p) ==
  LET half == (playerSize * Fine) \div 2
  IN [xMin |-> p.x - half, xMax |-> p.x + half,
      yMin |-> p.y - half, yMax |-> p.y + half,
      zMin |-> p.z - half, zMax |-> p.z + half]

\* the collider number idx in fine units, with its extent 0 .. wallHeight
wallAt(idx) ==
  LET f == Fine \div 20
      w == wallBoxes[idx]
  IN [xMin |-> f * w.xMin, xMax |-> f * w.xMax,
      yMin |-> 0, yMax |-> WallHeight * Fine,
      zMin |-> f * w.zMin, zMax |-> f * w.zMax]

\* Box3.intersectsBox
boxesIntersect(a, b) ==
  ~(\/ b.xMax < a.xMin \/ b.xMin > a.xMax
    \/ b.yMax < a.yMin \/ b.yMin > a.yMax
    \/ b.zMax < a.zMin \/ b.zMin > a.zMax)

\* the ICollision willCollide pushes for an intersecting wall
collisionWith(playerBox, idx) ==
  LET wall == wallAt(idx)
      oX == Min(playerBox.xMax, wall.xMax) - Max(playerBox.xMin, wall.xMin)
      oZ == Min(playerBox.zMax, wall.zMax) - Max(playerBox.zMin, wall.zMin)
  IN IF oX < oZ
       THEN [wall |-> idx,
             normal |-> <<IF playerBox.xMin + playerBox.xMax
                               < wall.xMin + wall.xMax THEN -1 ELSE 1, 0, 0>>,
             depth |-> oX]
       ELSE [wall |-> idx,
             normal |-> <<0, 0, IF playerBox.zMin + playerBox.zMax
                                     < wall.zMin + wall.zMax THEN -1 ELSE 1>>,
             depth |-> oZ]

\* getNearbyWallColliders(centre, size): the buckets under the square of
\* side size around centre
wallsNearbyAt(centre, size) ==
  LET half == (size * Fine) \div 2
      cell == CellSize * Fine
  IN concatRows(wallLists,
                Max(0, (centre.z - half) \div cell),
                Min(height - 1, (centre.z + half) \div cell),
                Max(0, (centre.x - half) \div cell),
                Min(width - 1, (centre.x + half) \div cell))

\* the loop of willCollide over wallsNearby from its n-th element
RECURSIVE collisionsWith(_, _, _)
collisionsWith(playerBox, wallsNearby, n) ==
  IF n > Len(wallsNearby)
    THEN <<>>
    ELSE (IF boxesIntersect(playerBox, wallAt(wallsNearby[n]))
            THEN <<collisionWith(playerBox, wallsNearby[n])>>
            ELSE <<>>)
         \o collisionsWith(playerBox, wallsNearby, n + 1)

\* Supervisor.willCollide(p) while the Player stands at centre
willCollideAt(centre, p) ==
  LET playerBox == boundingBoxAt(p)
      ground == IF playerBox.yMin < 0
                  THEN <<[wall |-> 0, normal |-> <<0, 1, 0>>,
                          depth |-> -playerBox.yMin]>>
                  ELSE <<>>
  IN ground \o collisionsWith(playerBox, wallsNearbyAt(centre, playerSize), 1)

\* the value of an array in a condition: an array is an object, and every
\* object is truthy
truthy(array) == TRUE

\* centerX, spawnHeight, centerZ
spawnCentre ==
  Point3((width * CellSize * Fine) \div 2, Fine, (height * CellSize * Fine) \div 2)

\* testPosition of the attempt number attempts: radius grows by stepSize
\* after the angles 0, 90, 180 and 270 degrees
testPosition(attempts) ==
  LET radius == (attempts \div 4) * CellSize * Fine
      quarter == attempts % 4
  IN Point3(spawnCentre.x + (CASE quarter = 0 -> radius
                               [] quarter = 2 -> -radius
                               [] OTHER -> 0),
            spawnCentre.y,
            spawnCentre.z + (CASE quarter = 1 -> radius
                               [] quarter = 3 -> -radius
                               [] OTHER -> 0))

\* the while loop of findSafeSpawnPosition from the attempt number attempts
RECURSIVE spiralFrom(_)
spiralFrom(attempts) ==
  IF attempts >= maxAttempts
    THEN spawnCentre
    ELSE IF ~truthy(willCollideAt(playerPos, testPosition(attempts)))
      THEN testPosition(attempts)
      ELSE spiralFrom(attempts + 1)

findSafeSpawnPosition == spiralFrom(0)

\* the field initialisers of Supervisor: new Player(size, this) stands at
\* (0, 0, 0) and new Maze(...) is about to run
PlayerInit ==
  /\ version = "backtracker"
  /\ width \in 1 .. MaxWidth
  /\ height \in 1 .. MaxHeight
  /\ width * height <= MaxPlayCells
  /\ pc = "new"
  /\ error = "none"
  /\ grid = <<>>
  /\ stack = <<>>
  /\ node = NoPoint
  /\ wallSegments = <<>>
  /\ wallBoxes = <<>>
  /\ wallLists = <<>>
  /\ query = "none"
  /\ readCells = {}
  /\ result = <<>>
  /\ player = NoPoint
  /\ playerSize \in PlayerSizes
  /\ candidate = <<>>
  /\ collisions = <<>>
  /\ NoRunner
  /\ pelletGroup = <<>>
  /\ pelletLists = [z \in 0 .. height - 1 |-> [x \in 0 .. width - 1 |-> <<>>]]
  /\ spawned = 0
  /\ pelletCall = NoCall
  /\ playerPos = Point3(0, 0, 0)
  /\ velocityY = 0
  /\ ticks = 0
  /\ lastTick = NoTick
  /\ spawn = <<>>
  /\ score = 0
  /\ NoClock

\* the constructor of Supervisor: spawnPellets, then findSafeSpawnPosition
\* and player.setPosition
ConstructSupervisor ==
  /\ pc = "ready"
  /\ spawn = <<>>
  /\ spawned' = spawned + 1
  /\ pelletGroup' = spawnedGroup(spawned + 1)
  /\ pelletLists' =
       [z \in 0 .. height - 1 |-> [x \in 0 .. width - 1 |->
          Append(clearedLists(pelletLists)[z][x], pelletMesh(spawned + 1, x, z))]]
  /\ pelletCall' = [op |-> "spawnPellets", mesh |-> NoMesh, threw |-> "none",
                    live |-> Len(pelletGroup)]
  /\ spawn' = findSafeSpawnPosition
  /\ playerPos' = findSafeSpawnPosition
  /\ UNCHANGED <<version, width, height, pc, error, grid, stack, node,
                 wallSegments, wallBoxes, wallLists, query, readCells, result,
                 player, playerSize, candidate, collisions, runnerVars,
                 velocityY, ticks, lastTick, score, clockVars, stateVars>>

lengthSq(v) == v[1] * v[1] + v[2] * v[2]

\* the loop over the collisions of one candidate, from the n-th one: the
\* movement and the correction on the x and z axes
RECURSIVE slide(_, _, _, _)
slide(cols, n, remainingMovement, correction) ==
  IF n > Len(cols)
    THEN [remainingMovement |-> remainingMovement, correction |-> correction]
    ELSE LET normal == cols[n].normal
             depth == cols[n].depth
             dot == remainingMovement[1] * normal[1] + remainingMovement[2] * normal[3]
         IN IF normal[2] = 1
              THEN slide(cols, n + 1, remainingMovement, correction)
              ELSE slide(cols, n + 1,
                         <<remainingMovement[1] - normal[1] * dot,
                           remainingMovement[2] - normal[3] * dot>>,
                         <<correction[1] + normal[1] * depth,
                           correction[2] + normal[3] * depth>>)

\* the for loop of the horizontal movement from iteration i; 0.0001 is the
\* square of Fine \div 100
RECURSIVE horizontal(_, _, _, _)
horizontal(i, currentPosition, movement, correction) ==
  IF i >= 3 \/ lengthSq(movement) = 0
    THEN [currentPosition |-> currentPosition, movement |-> movement,
          correction |-> correction]
    ELSE LET potentialPosition == Point3(currentPosition.x + movement[1],
                                         currentPosition.y,
                                         currentPosition.z + movement[2])
             cols == willCollideAt(playerPos, potentialPosition)
             s == slide(cols, 1, movement, correction)
         IN IF Len(cols) = 0
              THEN [currentPosition |-> potentialPosition, movement |-> movement,
                    correction |-> correction]
              ELSE IF lengthSq(s.remainingMovement) < (Fine \div 100) * (Fine \div 100)
                THEN [currentPosition |-> currentPosition, movement |-> movement,
                      correction |-> s.correction]
                ELSE horizontal(i + 1, currentPosition, s.remainingMovement,
                                s.correction)

abs1(n) == IF n < 0 THEN -n ELSE n

\* Box3.intersectsSphere for the sphere of a pellet mesh: the sphere's
\* centre clamped to the box is no farther from it than the radius
intersectsSphere(box, mesh) ==
  LET cx == mesh.x * (Fine \div 2)
      cz == mesh.z * (Fine \div 2)
      radius == (CellSize * Fine) \div 20
      ddx == Max(box.xMin, Min(box.xMax, cx)) - cx
      ddy == Max(box.yMin, Min(box.yMax, 0))
      ddz == Max(box.zMin, Min(box.zMax, cz)) - cz
  IN /\ abs1(ddx) <= radius
     /\ abs1(ddy) <= radius
     /\ abs1(ddz) <= radius
     /\ ddx * ddx + ddy * ddy + ddz * ddz <= radius * radius

\* getNearbyPellets(centre) with its default playerSize, the cell size
pelletsNearbyAt(centre) ==
  LET half == (CellSize * Fine) \div 2
      cell == CellSize * Fine
  IN concatRows(pelletLists,
                Max(0, (centre.z - half) \div cell),
                Min(height - 1, (centre.z + half) \div cell),
                Max(0, (centre.x - half) \div cell),
                Min(width - 1, (centre.x + half) \div cell))

\* the loop of checkPelletIntersection from the n-th nearby pellet: the
\* pellets after the calls of removePellet, the last call and the score
RECURSIVE eatFrom(_, _, _, _, _, _, _)
eatFrom(pellets, n, playerBox, group, lists, last, points) ==
  IF n > Len(pellets)
    THEN [group |-> group, lists |-> lists, last |-> last, points |-> points]
    ELSE LET mesh == pellets[n]
             gridX == pelletGridX(mesh)
             gridZ == pelletGridZ(mesh)
             index == indexOf(lists[gridZ][gridX], mesh)
         IN IF intersectsSphere(playerBox, mesh)
              THEN eatFrom(pellets, n + 1, playerBox,
                           removeChild(group, mesh),
                           IF index # 0
                             THEN [lists EXCEPT ![gridZ][gridX] = splice(@, index)]
                             ELSE lists,
                           [op |-> "removePellet", mesh |-> mesh, threw |-> "none",
                            live |-> Len(group)],
                           points + 10)
              ELSE eatFrom(pellets, n + 1, playerBox, group, lists, last, points)

\* what one call of update computes from the input: the horizontal
\* movement, then the vertical one, then the pellets
updated(D, jump) ==
  LET h == horizontal(0, playerPos, D, <<0, 0>>)
      moved == Point3(h.currentPosition.x + h.movement[1] + h.correction[1] \div 5,
                      h.currentPosition.y,
                      h.currentPosition.z + h.movement[2] + h.correction[2] \div 5)
      vy == (IF jump THEN jumpSpeed ELSE velocityY) + gravity
      verticalCollisionInfo == willCollideAt(moved, Point3(moved.x, moved.y + vy, moved.z))
  IN [position |-> IF Len(verticalCollisionInfo) = 0
                     THEN Point3(moved.x, moved.y + vy, moved.z)
                     ELSE moved,
      velocityY |-> IF Len(verticalCollisionInfo) = 0 THEN vy ELSE 0,
      tick |-> [D |-> D, jump |-> jump, from |-> playerPos,
                first |-> IF lengthSq(D) = 0 THEN <<>>
                          ELSE willCollideAt(playerPos,
                                 Point3(playerPos.x + D[1], playerPos.y,
                                        playerPos.z + D[2])),
                movement |-> h.movement, correction |-> h.correction,
                vy |-> vy, vertical |-> verticalCollisionInfo]]

\* Player.update(context): context.input gives D and the jump
Update3D ==
  /\ spawn # <<>>
  /\ ticks < MaxTicks
  /\ \E ddx \in {-speed, 0, speed}, ddz \in {-speed, 0, speed}, jump \in BOOLEAN :
       \E u \in {updated(<<ddx, ddz>>, jump)} :
         \E eaten \in {eatFrom(pelletsNearbyAt(u.position), 1,
                               boundingBoxAt(u.position), pelletGroup,
                               pelletLists, pelletCall, score)} :
           /\ playerPos' = u.position
           /\ velocityY' = u.velocityY
           /\ lastTick' = u.tick
           /\ pelletGroup' = eaten.group
           /\ pelletLists' = eaten.lists
           /\ pelletCall' = eaten.last
           /\ score' = eaten.points
  /\ ticks' = ticks + 1
  /\ UNCHANGED <<version, width, height, pc, error, grid, stack, node,
                 wallSegments, wallBoxes, wallLists, query, readCells, result,
                 player, playerSize, candidate, collisions, runnerVars,
                 spawned, spawn, clockVars, stateVars>>

PlayerNext ==
  \/ ConstructBacktracker
  \/ CarveRecurse
  \/ CarveReturn
  \/ CreateWallSegments
  \/ GenerateMazeMesh
  \/ ConstructSupervisor
  \/ Update3D

PlayerSpec == PlayerInit /\ [][PlayerNext]_vars

\* ------------------------------------------------------------------------
\* Timer (addTimer, removeTimer, update) and the power-up callbacks of the
\* Supervisor. Time is counted in whole seconds.

\* the interval of the timer the power-up callback adds
PowerDownInterval == 5

\* the interval of the repeating timer the Supervisor's constructor adds
PowerUpInterval == 10

\* an entry of Timer.timers, with its key
TimerElem(id, interval, callback, repeat) ==
  [id |-> id, remaining |-> interval, interval |-> interval,
   callback |-> callback, repeat |-> repeat]

\* what is recorded about the timer of one id: the update time that has
\* elapsed since addTimer returned, how often its callback ran, how often it
\* ran in the last update, the elapsed time at its first run, whether
\* removeTimer was called with the id and whether the callback ran after that
LogElem(interval, repeat) ==
  [interval |-> interval, repeat |-> repeat, elapsed |-> 0, fired |-> 0,
   firedNow |-> 0, firedAt |-> -1, removed |-> FALSE, firedRemoved |-> FALSE]

\* the Timer and the flag of the Supervisor, as one value
clock ==
  [timers |-> timers, nextId |-> nextId, canEatGhosts |-> canEatGhosts,
   timerLog |-> timerLog, power |-> power]

\* Timer.addTimer(interval, callback, repeat); the id returned is c.nextId
addTimer(c, interval, callback, repeat) ==
  [c EXCEPT !.timers = Append(@, TimerElem(c.nextId, interval, callback, repeat)),
            !.nextId = @ + 1,
            !.timerLog = Append(@, LogElem(interval, repeat))]

\* Timer.removeTimer(id)
removeTimer(c, id) ==
  [c EXCEPT !.timers = SelectSeq(@, LAMBDA t : t.id # id),
            !.timerLog = [i \in DOMAIN @ |->
                            IF i = id + 1 THEN [@[i] EXCEPT !.removed = TRUE]
                            ELSE @[i]]]

\* timer.callback(): "noop" does nothing, "powerUp" is the callback of the
\* Supervisor's repeating timer and "powerDown" the one it registers
callbackRuns(c, callback) ==
  CASE callback = "powerUp" ->
         addTimer([c EXCEPT !.canEatGhosts = TRUE,
                            !.power = [openFor |-> 0,
                                       closedAfter |-> @.closedAfter,
                                       reopened |-> @.reopened \/ c.canEatGhosts]],
                  PowerDownInterval, "powerDown", FALSE)
    [] callback = "powerDown" ->
         [c EXCEPT !.canEatGhosts = FALSE,
                   !.power.closedAfter =
                      IF c.canEatGhosts /\ (@ = -1 \/ c.power.openFor < @)
                        THEN c.power.openFor ELSE @]
    [] OTHER -> c

\* the record of a callback run
logFired(log, id) ==
  [log EXCEPT ![id + 1] =
     [@ EXCEPT !.fired = @ + 1,
               !.firedNow = @ + 1,
               !.firedAt = IF @ = -1 THEN log[id + 1].elapsed ELSE @,
               !.firedRemoved = @ \/ log[id + 1].removed]]

\* the for-of loop of Timer.update from the k-th entry on. A Map iterator is
\* live: an entry a callback adds is visited by the same loop, and deleting
\* the current entry moves the later ones up
RECURSIVE runTimers(_, _, _)
runTimers(c, k, deltaTime) ==
  IF k > Len(c.timers) THEN c
  ELSE LET timer == c.timers[k]
           remaining == timer.remaining - deltaTime
       IN IF remaining <= 0
            THEN LET called ==
                       callbackRuns([c EXCEPT !.timers[k].remaining = remaining,
                                              !.timerLog = logFired(@, timer.id)],
                                    timer.callback)
                 IN IF timer.repeat
                      THEN runTimers([called EXCEPT !.timers[k].remaining =
                                                      @ + timer.interval],
                                     k + 1, deltaTime)
                      ELSE runTimers([called EXCEPT !.timers =
                                        SubSeq(@, 1, k - 1) \o SubSeq(@, k + 1, Len(@))],
                                     k, deltaTime)
            ELSE runTimers([c EXCEPT !.timers[k].remaining = remaining],
                           k + 1, deltaTime)

\* the time of one update, added to what has elapsed for every registered
\* timer and for an open power-up window
aged(c, deltaTime) ==
  [c EXCEPT !.timerLog =
              [i \in DOMAIN @ |->
                 [@[i] EXCEPT !.firedNow = 0,
                              !.elapsed = IF \E k \in 1 .. Len(c.timers) :
                                               c.timers[k].id = i - 1
                                            THEN @ + deltaTime ELSE @]],
            !.power.openFor = IF c.canEatGhosts THEN @ + deltaTime ELSE @]

\* Timer.update(deltaTime)
timerUpdate(c, deltaTime) == runTimers(aged(c, deltaTime), 1, deltaTime)

\* a Timer just constructed, next to no Maze
TimerInit ==
  /\ version = "backtracker"
  /\ width = 0
  /\ height = 0
  /\ pc = "new"
  /\ error = "none"
  /\ grid = <<>>
  /\ stack = <<>>
  /\ node = NoPoint
  /\ wallSegments = <<>>
  /\ wallBoxes = <<>>
  /\ wallLists = <<>>
  /\ query = "none"
  /\ readCells = {}
  /\ result = <<>>
  /\ player = NoPoint
  /\ playerSize = 0
  /\ candidate = <<>>
  /\ collisions = <<>>
  /\ NoRunner
  /\ NoPellets
  /\ NoPlay
  /\ NoClock

\* a caller calls addTimer
AddTimer ==
  /\ nextId < MaxTimers
  /\ \E interval \in 1 .. MaxInterval, callback \in {"noop", "powerUp"},
        repeat \in BOOLEAN :
       \E c \in {addTimer(clock, interval, callback, repeat)} :
         /\ timers' = c.timers
         /\ nextId' = c.nextId
         /\ timerLog' = c.timerLog
  /\ UNCHANGED <<version, width, height, pc, error, grid, stack, node,
                 wallSegments, wallBoxes, wallLists, query, readCells, result,
                 player, playerSize, candidate, collisions, runnerVars,
                 pelletVars, playVars, canEatGhosts, updates, power, stateVars>>

\* a caller calls removeTimer with an id addTimer has returned
RemoveTimer ==
  /\ \E id \in 0 .. nextId - 1 :
       /\ ~timerLog[id + 1].removed
       /\ \E c \in {removeTimer(clock, id)} :
            /\ timers' = c.timers
            /\ timerLog' = c.timerLog
  /\ UNCHANGED <<version, width, height, pc, error, grid, stack, node,
                 wallSegments, wallBoxes, wallLists, query, readCells, result,
                 player, playerSize, candidate, collisions, runnerVars,
                 pelletVars, playVars, nextId, canEatGhosts, updates, power,
                 stateVars>>

\* a caller calls update
UpdateTimer ==
  /\ updates < MaxUpdates
  /\ \E deltaTime \in 1 .. MaxDelta :
       \E c \in {timerUpdate(clock, deltaTime)} :
         /\ timers' = c.timers
         /\ nextId' = c.nextId
         /\ canEatGhosts' = c.canEatGhosts
         /\ timerLog' = c.timerLog
         /\ power' = c.power
  /\ updates' = updates + 1
  /\ UNCHANGED <<version, width, height, pc, error, grid, stack, node,
                 wallSegments, wallBoxes, wallLists, query, readCells, result,
                 player, playerSize, candidate, collisions, runnerVars,
                 pelletVars, playVars, stateVars>>

TimerNext ==
  \/ AddTimer
  \/ RemoveTimer
  \/ UpdateTimer

TimerSpec == TimerInit /\ [][TimerNext]_vars

\* ------------------------------------------------------------------------
\* The power-up window: the Timer with the timers of Supervisor.constructor

\* the Timer after this.timer.addTimer(10, ..., true) in the constructor
PowerInit ==
  /\ version = "backtracker"
  /\ width = 0
  /\ height = 0
  /\ pc = "new"
  /\ error = "none"
  /\ grid = <<>>
  /\ stack = <<>>
  /\ node = NoPoint
  /\ wallSegments = <<>>
  /\ wallBoxes = <<>>
  /\ wallLists = <<>>
  /\ query = "none"
  /\ readCells = {}
  /\ result = <<>>
  /\ player = NoPoint
  /\ playerSize = 0
  /\ candidate = <<>>
  /\ collisions = <<>>
  /\ NoRunner
  /\ NoPellets
  /\ NoPlay
  /\ timers = <<TimerElem(0, PowerUpInterval, "powerUp", TRUE)>>
  /\ nextId = 1
  /\ canEatGhosts = FALSE
  /\ updates = 0
  /\ timerLog = <<LogElem(PowerUpInterval, TRUE)>>
  /\ power = NoPower
  /\ gameState = "Start"
  /\ scoreToWin = 0
  /\ ghosts = 0
  /\ frame = "idle"

\* this.timer.update(deltaTime) in the loop of Supervisor.run
PowerFrame ==
  /\ updates < MaxFrames
  /\ \E deltaTime \in 1 .. MaxFrame :
       \E c \in {timerUpdate(clock, deltaTime)} :
         /\ timers' = c.timers
         /\ nextId' = c.nextId
         /\ canEatGhosts' = c.canEatGhosts
         /\ timerLog' = c.timerLog
         /\ power' = c.power
  /\ updates' = updates + 1
  /\ UNCHANGED <<version, width, height, pc, error, grid, stack, node,
                 wallSegments, wallBoxes, wallLists, query, readCells, result,
                 player, playerSize, candidate, collisions, runnerVars,
                 pelletVars, playVars, stateVars>>

PowerSpec == PowerInit /\ [][PowerFrame]_vars

\* ------------------------------------------------------------------------
\* The game: Supervisor.state over the frames of Supervisor.run. Which
\* ghosts and pellets the Player's box meets in a frame is an input of the
\* frame; positions are not followed here.

\* while (ghostCount < 10) in the constructor
GhostCount == 10

\* this.score += 500 and this.score += 10
GhostScore == 500
PelletScore == 10

\* the values the difficulty buttons assign to scoreToWin
Difficulties == {1000, 3000, 10000}

\* the Supervisor after its constructor
GameInit ==
  /\ version = "backtracker"
  /\ width = 0
  /\ height = 0
  /\ pc = "new"
  /\ error = "none"
  /\ grid = <<>>
  /\ stack = <<>>
  /\ node = NoPoint
  /\ wallSegments = <<>>
  /\ wallBoxes = <<>>
  /\ wallLists = <<>>
  /\ query = "none"
  /\ readCells = {}
  /\ result = <<>>
  /\ player = NoPoint
  /\ playerSize = 0
  /\ candidate = <<>>
  /\ collisions = <<>>
  /\ NoRunner
  /\ NoPellets
  /\ NoPlay
  /\ timers = <<TimerElem(0, PowerUpInterval, "powerUp", TRUE)>>
  /\ nextId = 1
  /\ canEatGhosts = FALSE
  /\ updates = 0
  /\ timerLog = <<LogElem(PowerUpInterval, TRUE)>>
  /\ power = NoPower
  /\ gameState = "Start"
  /\ scoreToWin = 1000
  /\ ghosts = GhostCount
  /\ frame = "idle"

\* a click on easyButton, mediumButton or impossibleButton, which the
\* difficulty screen shows before the game
StartGame ==
  /\ gameState = "Start"
  /\ scoreToWin' \in Difficulties
  /\ gameState' = "Playing"
  /\ UNCHANGED <<version, width, height, pc, error, grid, stack, node,
                 wallSegments, wallBoxes, wallLists, query, readCells, result,
                 player, playerSize, candidate, collisions, runnerVars,
                 pelletVars, playVars, clockVars, ghosts, frame>>

\* checkGhostIntersections when the Player's box meets touching ghosts:
\* what it leaves in score, ghosts and state
ghostsChecked(touching) ==
  IF canEatGhosts
    THEN [score |-> score + GhostScore * touching, ghosts |-> ghosts - touching,
          state |-> gameState]
    ELSE [score |-> score, ghosts |-> ghosts,
          state |-> IF touching > 0 THEN "Lost" ELSE gameState]

\* a frame of the loop begins: the state is Playing, stage.update runs
\* Player.update, which starts with checkGhostIntersections
FrameBegins ==
  /\ frame = "idle"
  /\ gameState = "Playing"
  /\ updates < MaxGameFrames
  /\ \E touching \in 0 .. Min(ghosts, MaxTouching) :
       \E checked \in {ghostsChecked(touching)} :
         /\ score' = checked.score
         /\ ghosts' = checked.ghosts
         /\ gameState' = checked.state
  /\ frame' = "stage"
  /\ UNCHANGED <<version, width, height, pc, error, grid, stack, node,
                 wallSegments, wallBoxes, wallLists, query, readCells, result,
                 player, playerSize, candidate, collisions, runnerVars,
                 pelletVars, playerPos, velocityY, ticks, lastTick, spawn,
                 clockVars, scoreToWin>>

\* the rest of the frame: Player.update moves the Player and calls
\* checkPelletIntersection, the loop calls timer.update and compares the
\* score with scoreToWin
FrameEnds ==
  /\ frame = "stage"
  /\ \E eaten \in 0 .. MaxEaten, deltaTime \in 1 .. MaxGameDelta :
       \E c \in {timerUpdate(clock, deltaTime)} :
         /\ score' = score + PelletScore * eaten
         /\ timers' = c.timers
         /\ nextId' = c.nextId
         /\ canEatGhosts' = c.canEatGhosts
         /\ timerLog' = c.timerLog
         /\ power' = c.power
         /\ gameState' = IF score' >= scoreToWin THEN "Won" ELSE gameState
  /\ updates' = updates + 1
  /\ frame' = "idle"
  /\ UNCHANGED <<version, width, height, pc, error, grid, stack, node,
                 wallSegments, wallBoxes, wallLists, query, readCells, result,
                 player, playerSize, candidate, collisions, runnerVars,
                 pelletVars, playerPos, velocityY, ticks, lastTick, spawn,
                 scoreToWin, ghosts>>

GameNext ==
  \/ StartGame
  \/ FrameBegins
  \/ FrameEnds

GameSpec == GameInit /\ [][GameNext]_vars

\* ------------------------------------------------------------------------
\* Properties

Cells == {c \in (0 .. width - 1) \X (0 .. height - 1) : TRUE}

\* the grid is allocated
Allocated == pc # "new" /\ error # "RangeError"

\* generateMaze has returned
Carved == pc \in {"generated", "segmented", "ready"}

\* createWallSegments has returned
Segmented == pc \in {"segmented", "ready"}

\* the constructor was given a size the specification allows
ValidSize == width >= 1 /\ height >= 1

mask(c) == grid[c[2]][c[1]]

toward(c, dir) == <<c[1] + dx(dir), c[2] + dz(dir)>>

\* the cells one passage bit away from c
passagesFrom(c) ==
  {toward(c, dir) : dir \in {d \in Directions : hasBit(mask(c), d)}} \cap Cells

RECURSIVE traverse(_, _)
traverse(visited, frontier) ==
  IF frontier = {}
    THEN visited
    ELSE LET next == (UNION {passagesFrom(c) : c \in frontier}) \ visited
         IN traverse(visited \cup next, next)

\* the cells a breadth-first traversal over the passage bits visits from c
reachableFrom(c) == traverse({c}, {c})

\* the undirected passages of the grid
Passages ==
  {{cd[1], toward(cd[1], cd[2])} :
     cd \in {e \in Cells \X Directions : hasBit(mask(e[1]), e[2])}}

Components == {reachableFrom(c) : c \in Cells}

C2_Symmetry ==
  Allocated =>
    \A c \in Cells, dir \in Directions :
      hasBit(mask(c), dir) =>
        /\ toward(c, dir) \in Cells
        /\ hasBit(mask(toward(c, dir)), opposite(dir))

\* a generator is in the middle of carving, with a vertical and a
\* horizontal passage already set
C2_Witness ==
  /\ pc \in {"carving", "walkhunt"}
  /\ \E c \in Cells : hasBit(mask(c), South)
  /\ \E c \in Cells : hasBit(mask(c), East)
  /\ \E c \in Cells : mask(c) = 0

NothingToHunt ==
  \A c \in Cells :
    mask(c) = 0 =>
      \A dir \in Directions :
        toward(c, dir) \in Cells => mask(toward(c, dir)) = 0

\* C4: the walk/hunt loop terminates for every w, h >= 1 and every sequence
\* of random choices, and it ends in the iteration in which walk fails and
\* no unvisited cell with a visited neighbour is left.
C4_Terminates ==
  /\ (pc = "walkhunt") ~> (pc = "generated")
  /\ [][(pc = "walkhunt" /\ NothingToHunt
         /\ \A dir \in Directions : ~canCarve(grid, node.x, node.z, dir))
        => pc' = "generated"]_vars

\* the loop has ended on a single corridor of more than one cell
C4_Witness ==
  /\ version = "huntkill"
  /\ pc = "generated"
  /\ (width = 1 \/ height = 1)
  /\ width * height > 2

\* C5: constructing a Maze with width <= 0 or height <= 0 never returns a
\* maze object.
C5_FailsFast == (width <= 0 \/ height <= 0) => pc # "ready"

\* the segments pushed after the four boundary segments
InternalSegments == {n \in 1 .. Len(wallSegments) : n > 4}

isVertical(segment) == segment.p1.x = segment.p2.x

\* the extent of a segment along its line
lineFrom(segment) ==
  IF isVertical(segment) THEN Min(segment.p1.z, segment.p2.z)
                         ELSE Min(segment.p1.x, segment.p2.x)

lineTo(segment) ==
  IF isVertical(segment) THEN Max(segment.p1.z, segment.p2.z)
                         ELSE Max(segment.p1.x, segment.p2.x)

\* segment covers the unit edge from k to k + 1 of the vertical line x = i
coversVertical(segment, i, k) ==
  /\ segment.p1.x = i /\ segment.p2.x = i
  /\ lineFrom(segment) <= k /\ k + 1 <= lineTo(segment)

\* segment covers the unit edge from k to k + 1 of the horizontal line z = j
coversHorizontal(segment, j, k) ==
  /\ segment.p1.z = j /\ segment.p2.z = j
  /\ lineFrom(segment) <= k /\ k + 1 <= lineTo(segment)

\* the number of internal segments covering the edge between c and the cell
\* after it across the line, east of c (dir = East) or south of c
coverCount(c, dir) ==
  Cardinality({n \in InternalSegments :
                 IF dir = East
                   THEN coversVertical(wallSegments[n], c[1] + 1, c[2])
                   ELSE coversHorizontal(wallSegments[n], c[2] + 1, c[1])})

\* C6: the unit edge between two adjacent cells is covered by exactly one
\* internal segment when neither cell has the passage bit toward the other,
\* and by none when a passage connects them.
C6_InternalEdgesExact ==
  (Segmented /\ ValidSize) =>
    \A c \in Cells, dir \in {East, South} :
      toward(c, dir) \in Cells =>
        LET here == hasBit(mask(c), dir)
            there == hasBit(mask(toward(c, dir)), opposite(dir))
        IN /\ (~here /\ ~there) => coverCount(c, dir) = 1
           /\ (here /\ there) => coverCount(c, dir) = 0

\* the lookup is built on a grid that has both a walled and an open
\* internal edge meeting the far boundary
C6_Witness ==
  /\ Segmented
  /\ width >= 2 /\ height >= 2
  /\ \E c \in Cells :
       /\ c[2] = height - 1 /\ toward(c, East) \in Cells
       /\ ~hasBit(mask(c), East)
  /\ \E c \in Cells :
       /\ c[1] = width - 1 /\ toward(c, South) \in Cells
       /\ hasBit(mask(c), South)

sameLine(a, b) ==
  \/ isVertical(a) /\ isVertical(b) /\ a.p1.x = b.p1.x
  \/ ~isVertical(a) /\ ~isVertical(b) /\ a.p1.z = b.p1.z

\* C7: every internal segment has positive length, and no two segments on
\* the same internal line touch or overlap.
C7_MaximalRuns ==
  (Segmented /\ ValidSize) =>
    /\ \A n \in InternalSegments : wallSegments[n].p1 # wallSegments[n].p2
    /\ \A m \in InternalSegments, n \in InternalSegments :
         (m # n /\ sameLine(wallSegments[m], wallSegments[n])) =>
           \/ lineTo(wallSegments[m]) < lineFrom(wallSegments[n])
           \/ lineTo(wallSegments[n]) < lineFrom(wallSegments[m])

\* the unit segment of the edge between c and the cell after it
edgeSegment(c, dir) ==
  IF dir = East
    THEN fromCoords(c[1] + 1, c[2], c[1] + 1, c[2] + 1)
    ELSE fromCoords(c[1], c[2] + 1, c[1] + 1, c[2] + 1)

\* C8: for every spanning-tree carve of a 2x2 grid, createWallSegments
\* returns the four boundary segments plus one unit segment for the single
\* walled internal edge, and nothing else.
C8_TwoByTwoExact ==
  (Segmented /\ width = 2 /\ height = 2 /\ Cardinality(Passages) = 3
   /\ Cardinality(Components) = 1) =>
    /\ Len(wallSegments) = 5
    /\ {wallSegments[n] : n \in 1 .. Len(wallSegments)} =
         {fromCoords(0, 0, 0, 2), fromCoords(2, 0, 2, 2),
          fromCoords(0, 0, 2, 0), fromCoords(0, 2, 2, 2)}
         \cup {edgeSegment(c, dir) :
                 <<c, dir>> \in {e \in Cells \X {East, South} :
                                   /\ toward(e[1], e[2]) \in Cells
                                   /\ ~hasBit(mask(e[1]), e[2])}}

\* the in-bounds cells the segment bounds: for each unit step of its span,
\* the cell on each side of the line
cellsBounded(segment) ==
  {c \in Cells :
     \E k \in lineFrom(segment) .. lineTo(segment) - 1 :
       IF isVertical(segment)
         THEN c[2] = k /\ c[1] \in {segment.p1.x - 1, segment.p1.x}
         ELSE c[1] = k /\ c[2] \in {segment.p1.z - 1, segment.p1.z}}

inBucket(idx, c) == \E n \in DOMAIN wallLists[c[2]][c[1]] : wallLists[c[2]][c[1]][n] = idx

\* C9: after construction every wall collider is in the bucket of every
\* in-bounds cell its segment bounds, and in at least one bucket.
C9_CollidersBucketed ==
  (pc = "ready" /\ version = "backtracker" /\ ValidSize) =>
    \A idx \in DOMAIN wallBoxes :
      /\ \A c \in cellsBounded(wallSegments[idx]) : inBucket(idx, c)
      /\ \E c \in Cells : inBucket(idx, c)

\* C10: getNearbyWallColliders and getNearbyPellets only read buckets with
\* 0 <= gridX < width and 0 <= gridZ < height.
C10_QueryInRange ==
  \A rc \in readCells :
    /\ 0 <= rc[1] /\ rc[1] < height
    /\ 0 <= rc[2] /\ rc[2] < width

\* a query has been answered for a box that sticks out of the grid on all
\* four sides
C10_Witness ==
  /\ query # "none"
  /\ width >= 2 /\ height >= 2
  /\ readCells = {<<c[2], c[1]>> : c \in Cells}

\* the indices k of 0 .. n - 1 whose cell [k, k + 1] * cellSize lies between
\* floor((pos - size / 2) / cellSize) and floor((pos + size / 2) / cellSize)
overlappedIndices(pos, size, n) ==
  {k \in 0 .. n - 1 :
     /\ 2 * (k + 1) * CellSize > 2 * pos - size
     /\ 2 * k * CellSize <= 2 * pos + size}

least(S) == CHOOSE k \in S : \A m \in S : k <= m

RECURSIVE flatten(_)
flatten(seqs) == IF seqs = <<>> THEN <<>> ELSE Head(seqs) \o flatten(Tail(seqs))

\* the buckets of the rectangle rows x columns, row by row
bucketsOfRectangle(rows, columns) ==
  IF rows = {} \/ columns = {}
    THEN <<>>
    ELSE LET nc == Cardinality(columns)
         IN flatten([n \in 1 .. Cardinality(rows) * nc |->
                       wallLists[least(rows) + ((n - 1) \div nc)]
                                [least(columns) + ((n - 1) % nc)]])

occurrences(seq, e) == Cardinality({n \in DOMAIN seq : seq[n] = e})

\* C11: getNearbyWallColliders(position, size) returns exactly the
\* concatenation of the wall buckets of every cell of the inclusive rectangle
\* floor((pos - size/2)/cellSize) .. floor((pos + size/2)/cellSize) clamped to
\* the grid, a collider shared by two cells being returned once per cell.
C11_ExactConcatenation ==
  candidate # <<>> =>
    result = bucketsOfRectangle(overlappedIndices(player.z, playerSize, height),
                                overlappedIndices(player.x, playerSize, width))

\* a query whose box sticks out of the grid, over more than one cell, that
\* returned a collider twice
C11_Witness ==
  /\ candidate # <<>>
  /\ player.x - playerSize < 0
  /\ Cardinality(readCells) >= 2
  /\ \E n \in DOMAIN result : occurrences(result, result[n]) >= 2

\* the player's box at the position willCollide was called with
candidateBox == getBoundingBoxAt(candidate, playerSize)

reported(idx) == \E n \in DOMAIN collisions : collisions[n].wall = idx

\* C12: willCollide(position) reports a collision for every wall collider
\* that lies in the bucket of a cell overlapped by the player's box placed
\* at the candidate position and whose box intersects that box, wherever the
\* player stands.
C12_QueryAtCandidate ==
  candidate # <<>> =>
    \A gridZ \in overlappedIndices(candidate.z, playerSize, height),
       gridX \in overlappedIndices(candidate.x, playerSize, width) :
      \A n \in DOMAIN wallLists[gridZ][gridX] :
        intersectsBox(candidateBox, wallBoxes[wallLists[gridZ][gridX][n]])
          => reported(wallLists[gridZ][gridX][n])

sign(n) == IF n > 0 THEN {1} ELSE IF n < 0 THEN {-1} ELSE {-1, 1}

\* what the claim allows as the collision of the player's box with wall
expectedCollision(c, box, wall) ==
  LET ox == Min(box.xMax, wall.xMax) - Max(box.xMin, wall.xMin)
      oz == Min(box.zMax, wall.zMax) - Max(box.zMin, wall.zMin)
      onX == /\ c.depth = ox
             /\ c.normal[2] = 0 /\ c.normal[3] = 0
             /\ c.normal[1] \in sign((box.xMin + box.xMax) - (wall.xMin + wall.xMax))
      onZ == /\ c.depth = oz
             /\ c.normal[1] = 0 /\ c.normal[2] = 0
             /\ c.normal[3] \in sign((box.zMin + box.zMax) - (wall.zMin + wall.zMax))
  IN /\ ox < oz => onX
     /\ oz < ox => onZ
     /\ ox = oz => (onX \/ onZ)

\* the collisions reported for walls, in order
wallCollisionsReported ==
  SelectSeq(collisions, LAMBDA c : c.wall # 0)

\* the colliders of the query's result that intersect the candidate box
intersecting ==
  SelectSeq(result, LAMBDA idx : intersectsBox(candidateBox, wallBoxes[idx]))

joined(c) == {Point2(c.x + dx(dir), c.z + dz(dir)) :
                dir \in {d \in Directions : hasBit(grid[c.z][c.x], d)}}

\* C14: whenever getPathToTile(start, goal) returns a non-empty path, its
\* first cell is start, its last cell is goal, every two consecutive cells are
\* joined by a passage bit, and no cell occurs twice.
C14_PathValid ==
  (found.status = "found" /\ found.path # <<>>) =>
    /\ found.path[1] = startTile
    /\ found.path[Len(found.path)] = goalTile
    /\ \A n \in 1 .. Len(found.path) - 1 :
         /\ inBounds(found.path[n].x, found.path[n].z)
         /\ found.path[n + 1] \in joined(found.path[n])
    /\ \A m \in DOMAIN found.path, n \in DOMAIN found.path :
         found.path[m] = found.path[n] => m = n

\* a path around a corner, in a graph that has another route
C14_Witness ==
  /\ found.status = "found"
  /\ Len(found.path) >= 4
  /\ startTile.x # goalTile.x /\ startTile.z # goalTile.z
  /\ Cardinality(Passages) >= width * height

\* the number of steps of a shortest route from the cells of frontier to
\* goal, -1 when there is none
RECURSIVE bfsDistance(_, _, _, _)
bfsDistance(frontier, visited, goal, steps) ==
  IF goal \in frontier
    THEN steps
    ELSE LET next == (UNION {passagesFrom(c) : c \in frontier}) \ visited
         IN IF next = {}
              THEN -1
              ELSE bfsDistance(next, visited \cup next, goal, steps + 1)

tileInGrid(tile) == <<tile.x, tile.z>> \in Cells

\* goal cannot be reached from start over the passage bits
unreachable(from, goal) ==
  \/ ~tileInGrid(from)
  \/ ~tileInGrid(goal)
  \/ ~(<<goal.x, goal.z>> \in reachableFrom(<<from.x, from.z>>))

\* C16: getPathToTile terminates and yields no path whenever the goal is
\* unreachable from start or start or goal lies outside the grid; the agent
\* is then left with an empty path and stays where it is on that tick.
C16_NoPathHandled ==
  [][(target' = target /\ recomputed' /\ unreachable(startTile', goalTile')) =>
       /\ found'.status = "none"
       /\ path' = <<>>
       /\ currentTargetIndex' = 0
       /\ runner' = runner]_vars

\* the cell the target stands in
targetCell == Point2(target.x \div 2, target.z \div 2)

\* the agent has no path, has run off its end, or the path ends elsewhere
\* than in the target's cell
pathStale ==
  \/ path = <<>>
  \/ currentTargetIndex >= Len(path)
  \/ path[Len(path)] # targetCell

\* C20: on every tick update recomputes the path, resetting the cursor to 0,
\* only when the agent has no path, the cursor has run off the end of the
\* path, or the path's final cell differs from the target's cell; on every
\* other tick the path is left unchanged, and 0 <= cursor <= path.length.
C20_RecomputeOnlyWhenStale ==
  [][target' = target =>
       /\ recomputed' => (pathStale /\ currentTargetIndex' <= 1)
       /\ ~pathStale => (path' = path /\ ~recomputed')
       /\ 0 <= currentTargetIndex' /\ currentTargetIndex' <= Len(path')]_vars

\* a tick in the middle of a path of several cells that left the path alone
C20_Witness ==
  /\ ~recomputed
  /\ Len(path) >= 3
  /\ currentTargetIndex = 2
  /\ path[Len(path)] = targetCell

\* the meshes of a sequence
meshes(seq) == {seq[i] : i \in 1 .. Len(seq)}

\* the bucket indices <<z, x>> of pelletLists
buckets == {<<z, x>> : z \in DOMAIN pelletLists, x \in 0 .. width - 1}

\* the meshes held by the buckets
bucketed == UNION {meshes(pelletLists[b[1]][b[2]]) : b \in buckets}

\* the number of bucket entries
RECURSIVE entries(_)
entries(bs) ==
  IF bs = {} THEN 0
  ELSE LET b == CHOOSE c \in bs : TRUE
       IN Len(pelletLists[b[1]][b[2]]) + entries(bs \ {b})

\* seq without its entries equal to mesh
without(seq, mesh) == SelectSeq(seq, LAMBDA m : m # mesh)

\* C17: after removePellet(h) for a live pellet h, h is in no bucket and
\* not in the pellet group, the number of live pellets has gone down by
\* exactly one, and every other bucket entry is unchanged.
C17_RemoveLivePellet ==
  [][(pelletCall'.op = "removePellet" /\ pelletCall'.mesh \in meshes(pelletGroup)) =>
       LET h == pelletCall'.mesh
       IN /\ ~(h \in bucketed')
          /\ ~(h \in meshes(pelletGroup'))
          /\ Len(pelletGroup') = Len(pelletGroup) - 1
          /\ entries(buckets)' = entries(buckets) - 1
          /\ pelletGroup' = without(pelletGroup, h)
          /\ \A b \in buckets :
               pelletLists'[b[1]][b[2]] = without(pelletLists[b[1]][b[2]], h)]_vars

\* a live pellet was removed and others are left
C17_Witness ==
  /\ pelletCall.op = "removePellet"
  /\ pelletCall.mesh.id = spawned
  /\ pelletCall.threw = "none"
  /\ pelletCall.live = Len(pelletGroup) + 1
  /\ Len(pelletGroup) >= 1

\* mesh is in the bucket that removePellet looks into
inItsBucket(mesh) ==
  /\ pelletGridZ(mesh) \in DOMAIN pelletLists
  /\ pelletGridX(mesh) \in DOMAIN pelletLists[pelletGridZ(mesh)]
  /\ mesh \in meshes(pelletLists[pelletGridZ(mesh)][pelletGridX(mesh)])

\* C18: removePellet with a handle that is not in its bucket (one already
\* removed, or one whose position maps to no grid cell) does not throw and
\* leaves every bucket and the number of live pellets unchanged.
C18_RemoveAbsentIsNoOp ==
  [][(pelletCall'.op = "removePellet" /\ ~inItsBucket(pelletCall'.mesh)) =>
       /\ pelletCall'.threw = "none"
       /\ pelletLists' = pelletLists
       /\ pelletGroup' = pelletGroup]_vars

\* C19: after any sequence of spawnPellets and removePellet calls every live
\* pellet is in exactly one bucket, the bucket of the cell that contains its
\* position, and the pellets of pelletGroup are the pellets of the buckets;
\* right after a spawnPellets call every bucket holds exactly one pellet,
\* placed at the centre of its cell.
C19_PelletBuckets ==
  /\ meshes(pelletGroup) = bucketed
  /\ Len(pelletGroup) = entries(buckets)
  /\ \A m \in meshes(pelletGroup) : \A b \in buckets :
       m \in meshes(pelletLists[b[1]][b[2]])
         <=> (b[1] = pelletGridZ(m) /\ b[2] = pelletGridX(m))
  /\ pelletCall.op = "spawnPellets" =>
       \A b \in buckets :
         /\ Len(pelletLists[b[1]][b[2]]) = 1
         /\ pelletLists[b[1]][b[2]][1].x = (2 * b[2] + 1) * CellSize
         /\ pelletLists[b[1]][b[2]][1].z = (2 * b[1] + 1) * CellSize

\* spawnPellets has run again on a Maze with several cells that had lost
\* some of its pellets and kept others
C19_Witness ==
  /\ pelletCall.op = "spawnPellets"
  /\ spawned >= 2
  /\ pelletCall.live >= 1
  /\ pelletCall.live < width * height

\* the unvisited cells with a visited in-bounds neighbour
huntable ==
  {c \in Cells : /\ mask(c) = 0
                 /\ \E dir \in Directions :
                      toward(c, dir) \in Cells /\ mask(toward(c, dir)) # 0}

\* c comes before d in raster order: row by row, left to right
rasterBefore(c, d) == c[2] < d[2] \/ (c[2] = d[2] /\ c[1] < d[1])

\* walk fails at the current cell
walkFails == \A dir \in Directions : ~canCarve(grid, node.x, node.z, dir)

RECURSIVE openLists(_, _, _, _, _)
openLists(goal, openList, closedList, allNodes, iterations) ==
  IF openList = <<>> \/ iterations = 0
    THEN <<>>
    ELSE LET sorted == sortByF(openList)
             current == Head(sorted)
         IN IF current.tile.x = goal.x /\ current.tile.z = goal.z
              THEN <<openList>>
              ELSE LET closed == closedList \cup {key(current.tile)}
                       e == expand(getNeighbors(current.tile.x, current.tile.z),
                                   1, current, goal, Tail(sorted), closed,
                                   allNodes)
                   IN <<openList>> \o openLists(goal, e.openList, closed,
                                                e.allNodes, iterations - 1)

\* path cost so far plus Manhattan distance to goal
totalCost(n, goal) == n.g + heuristic(n.tile, goal)

\* C22: in getPathToTile the node removed from the open list has, at every
\* step, the smallest value of path cost so far plus Manhattan distance to
\* the goal among all open nodes.
C22_PopsLowestTotalCost ==
  found.status # "idle" =>
    LET startNode == AStarNode(startTile, <<>>, 0, heuristic(startTile, goalTile))
        lists == openLists(goalTile, <<startNode>>, {}, key(startTile) :> startNode,
                           maxIterations)
    IN \A i \in 1 .. Len(lists) :
         \A m \in 1 .. Len(lists[i]) :
           totalCost(Head(sortByF(lists[i])), goalTile) <= totalCost(lists[i][m], goalTile)

\* the collisions of a list that are not the ground collision
nonGround(cols) == {cols[n] : n \in {m \in 1 .. Len(cols) : cols[m].normal[2] # 1}}

\* a list holds the ground collision
hasGround(cols) == \E n \in 1 .. Len(cols) : cols[n].normal[2] = 1

\* C23: when willCollide reports no collision at current + D, the horizontal
\* position committed by update is exactly current + D.
C23_FullMovementOnce ==
  (ticks > 0 /\ lastTick.first = <<>>) =>
    /\ playerPos.x = lastTick.from.x + lastTick.D[1]
    /\ playerPos.z = lastTick.from.z + lastTick.D[2]

\* C24: when the candidate position collides with walls, the movement
\* finally added has no component along any non-ground normal returned for
\* the candidate, and the player is not displaced against such a normal.
C24_NoMovementIntoWalls ==
  ticks > 0 =>
    \A c \in nonGround(lastTick.first) :
      /\ lastTick.movement[1] * c.normal[1] + lastTick.movement[2] * c.normal[3] = 0
      /\ (playerPos.x - lastTick.from.x) * c.normal[1]
           + (playerPos.z - lastTick.from.z) * c.normal[3] >= 0

\* C25: the vertical velocity is reset to 0 and the vertical move discarded
\* exactly when the vertical candidate has a ground collision; a wall
\* collision alone at the vertical candidate does not stop the fall or jump.
C25_OnlyGroundStopsFall ==
  ticks > 0 =>
    IF hasGround(lastTick.vertical)
      THEN velocityY = 0 /\ playerPos.y = lastTick.from.y
      ELSE velocityY = lastTick.vy /\ playerPos.y = lastTick.from.y + lastTick.vy

\* the attempts of the spiral at which willCollide reports no collision, the
\* Player still standing where its field initialiser put it
safeAttempts ==
  {n \in 0 .. maxAttempts - 1 :
     Len(willCollideAt(Point3(0, 0, 0), testPosition(n))) = 0}

\* C26: findSafeSpawnPosition returns the first position of its spiral at
\* which willCollide reports no collision, and the centre only when all 100
\* tested positions collide.
C26_FirstSafePosition ==
  spawn # <<>> =>
    spawn = IF safeAttempts = {}
              THEN spawnCentre
              ELSE testPosition(CHOOSE n \in safeAttempts :
                                  \A m \in safeAttempts : n <= m)

\* whether the timer of an id is in Timer.timers
registered(id) == \E k \in 1 .. Len(timers) : timers[k].id = id

\* C27: a one-shot timer's callback runs exactly once, on the first update
\* at which the update time elapsed since addTimer reaches its interval, and
\* the timer is then no longer registered; a repeating timer stays
\* registered and runs at most once per update; no id is used twice and no
\* callback runs after removeTimer; timers added inside a callback included.
C27_TimerFiresOnTime ==
  /\ \A i \in DOMAIN timerLog :
       /\ ~timerLog[i].repeat =>
            /\ timerLog[i].fired <= 1
            /\ timerLog[i].fired = 1 =>
                 /\ timerLog[i].firedAt >= timerLog[i].interval
                 /\ ~registered(i - 1)
            /\ registered(i - 1) => timerLog[i].elapsed < timerLog[i].interval
       /\ timerLog[i].repeat =>
            /\ timerLog[i].firedNow <= 1
            /\ registered(i - 1) \/ timerLog[i].removed
       /\ ~timerLog[i].firedRemoved
       /\ timerLog[i].removed => ~registered(i - 1)
  /\ \A j, k \in 1 .. Len(timers) : j # k => timers[j].id # timers[k].id
  /\ \A k \in 1 .. Len(timers) : timers[k].id < nextId
  /\ Len(timerLog) = nextId

\* C30: canEatGhosts is false at first and becomes true only when the
\* repeating timer has run; every time it has become true it is set back to
\* false once 5 more seconds of update time have elapsed, not before and not
\* after, and before the repeating timer runs again.
C30_PowerUpWindowCloses ==
  /\ updates = 0 => ~canEatGhosts
  /\ canEatGhosts => timerLog[1].fired >= 1
  /\ power.closedAfter # -1 => power.closedAfter >= PowerDownInterval
  /\ canEatGhosts => power.openFor < PowerDownInterval
  /\ ~power.reopened

\* C28: once the state is Lost it never becomes Won and once Won never
\* Lost, also within the frame in which the Player touches a ghost that
\* cannot be eaten and collects the pellet that reaches scoreToWin; a stage
\* update begins only while the state is Playing.
C28_OutcomeIsFinal ==
  [][/\ gameState = "Lost" => gameState' # "Won"
     /\ gameState = "Won" => gameState' # "Lost"
     /\ (frame = "idle" /\ frame' = "stage") => gameState = "Playing"]_vars

\* the centre of a cell, in half cells
centre(cell) == Point2(2 * cell.x + 1, 2 * cell.z + 1)

\* the agent stands at the centre of the target's cell
arrived == runner = centre(targetCell)

\* p lies on the straight line from a to b
onSegment(a, b, p) ==
  /\ (p.x - a.x) * (b.z - a.z) = (p.z - a.z) * (b.x - a.x)
  /\ Min(a.x, b.x) <= p.x /\ p.x <= Max(a.x, b.x)
  /\ Min(a.z, b.z) <= p.z /\ p.z <= Max(a.z, b.z)

====
